---- MODULE Spec2Model ----
(***************************************************************************)
(* Model of the trade-matching engine of kalshi-dash                       *)
(* (src/src/utils/processData.ts).                                         *)
(*                                                                         *)
(* Numbers.  JavaScript numbers are IEEE doubles.  The model computes with *)
(* exact rationals [n, d] in lowest terms (d > 0) and keeps the three      *)
(* non-finite doubles as d = 0: NaN = 0/0, +Infinity = 1/0,                *)
(* -Infinity = -1/0.  Rounding error and the sign of zero are not          *)
(* modelled.  Contract counts, prices in cents and dates in milliseconds   *)
(* are integers.                                                           *)
(***************************************************************************)
EXTENDS Integers, Sequences, FiniteSets, TLC

\* ------------------------------------------------------------------------
\* Bounds of the model
\* ------------------------------------------------------------------------

\* Longest trade list handed to matchTradesFifo.
MaxTrades == 3

\* ------------------------------------------------------------------------
\* Arithmetic on doubles, as exact rationals with NaN and +-Infinity
\* ------------------------------------------------------------------------

Abs(x) == IF x < 0 THEN -x ELSE x

Sign(x) == IF x < 0 THEN -1 ELSE IF x > 0 THEN 1 ELSE 0

RECURSIVE GCD(_, _)
GCD(a, b) == IF b = 0 THEN a ELSE GCD(b, a % b)

Rat(n, d) ==
  IF d = 0 THEN [n |-> Sign(n), d |-> 0]
  ELSE LET g == GCD(Abs(n), Abs(d))
           s == Sign(d)
       IN  [n |-> (s * n) \div g, d |-> (s * d) \div g]

Num(k) == [n |-> k, d |-> 1]

NaN == [n |-> 0, d |-> 0]

IsNaN(a) == a.d = 0 /\ a.n = 0

IsInfinite(a) == a.d = 0 /\ a.n # 0

IsFinite(a) == a.d # 0

IsZero(a) == a.d # 0 /\ a.n = 0

RNeg(a) == [n |-> -a.n, d |-> a.d]

RAdd(a, b) ==
  IF IsNaN(a) \/ IsNaN(b) THEN NaN
  ELSE IF a.d = 0 /\ b.d = 0 THEN (IF a.n = b.n THEN a ELSE NaN)
  ELSE IF a.d = 0 THEN a
  ELSE IF b.d = 0 THEN b
  ELSE Rat(a.n * b.d + b.n * a.d, a.d * b.d)

RSub(a, b) == RAdd(a, RNeg(b))

RMul(a, b) == Rat(a.n * b.n, a.d * b.d)

RDiv(a, b) ==
  IF IsNaN(a) \/ IsNaN(b) THEN NaN
  ELSE IF a.d = 0 THEN (IF b.d = 0 THEN NaN
                        ELSE [n |-> a.n * (IF b.n < 0 THEN -1 ELSE 1), d |-> 0])
  ELSE Rat(a.n * b.d, a.d * b.n)

RLess(a, b) == IsFinite(a) /\ IsFinite(b) /\ a.n * b.d < b.n * a.d

RLeq(a, b) == IsFinite(a) /\ IsFinite(b) /\ a.n * b.d <= b.n * a.d

Min(a, b) == IF a < b THEN a ELSE b

\* value || 0 on a number: NaN and 0 are falsy
OrZero(a) == IF IsNaN(a) \/ IsZero(a) THEN Num(0) ELSE a

\* ------------------------------------------------------------------------
\* Trades handed to the matcher
\* ------------------------------------------------------------------------

MsPerDay == 24 * 3600 * 1000

Tickers == {"T1", "T2"}

\* ROI of a MatchedTrade that has none
Undefined == [undefined |-> TRUE]

Trade(ticker, type, direction, contracts, price, revenue, cost, profit, fees, date) ==
  [Ticker |-> ticker, Type |-> type, Direction |-> direction,
   Contracts |-> contracts, Average_Price |-> price,
   Realized_Revenue |-> revenue, Realized_Cost |-> cost,
   Realized_Profit |-> profit, Fees |-> fees, Date |-> date,
   Trade_Cost |-> Num(0)]

\* An opening row: Type 'trade' with zero realized profit.
EntryTrade(ticker, direction, contracts, price, date) ==
  Trade(ticker, "trade", direction, contracts, price,
        Num(0), Num(0), Num(0), Rat(6, 100), date)

\* A closing market trade: Type 'trade' with non-zero realized profit.
ExitTrade(ticker, direction, contracts, date) ==
  Trade(ticker, "trade", direction, contracts, 80,
        Num(2), Num(3), Num(-1), Rat(4, 100), date)

\* A settlement row.
SettlementTrade(ticker, direction, contracts, profit, date) ==
  Trade(ticker, "settlement", direction, contracts, 0,
        Num(2), Num(1), profit, Num(0), date)

\* The trades the input lists are made of.  The legacy normaliser keeps a
\* row whatever parseFloat(row.Contracts) || 0 gives and passes Type and
\* Direction through as written, so contract counts of 0 and below, other
\* directions than Yes/No and other types than trade/settlement reach the
\* matcher.  Trades of equal date keep their list order in the sort, so
\* every processing order is reachable with date 0 alone; a few trades
\* also come with the later date, to have lists that are not sorted.
TradeSet ==
  {EntryTrade("T1", d, c, 30, 0) : d \in {"Yes", "No"}, c \in {1, 2}}
  \cup {ExitTrade("T1", "Yes", c, 0) : c \in {1, 2}}
  \cup {SettlementTrade("T1", "Yes", c, Num(1), 0) : c \in {1, 2}}
  \cup {EntryTrade("T1", "Yes", 1, 30, MsPerDay),
        ExitTrade("T1", "Yes", 1, MsPerDay),
        SettlementTrade("T1", "No", 2, Num(1), MsPerDay)}
  \cup {EntryTrade("T1", "Unknown", 1, 30, 0),
        ExitTrade("T1", "Unknown", 1, 0),
        EntryTrade("T1", "Yes", 0, 30, 0),
        EntryTrade("T1", "Yes", -1, 30, 0),
        EntryTrade("T1", "Yes", 1, 0, 0),
        SettlementTrade("T1", "Yes", 1, Num(0), 0),
        EntryTrade("T2", "Yes", 1, 30, 0),
        ExitTrade("T2", "Yes", 1, 0),
        Trade("T1", "deposit", "Yes", 1, 0, Num(0), Num(0), Num(0), Num(0), 0)}

RECURSIVE SeqsUpTo(_, _)
SeqsUpTo(S, n) ==
  IF n = 0 THEN {<<>>}
  ELSE LET shorter == SeqsUpTo(S, n - 1)
       IN  shorter \cup {Append(s, x) : s \in {t \in shorter : Len(t) = n - 1}, x \in S}

\* ------------------------------------------------------------------------
\* matchTradesFifo
\* ------------------------------------------------------------------------

VARIABLES
  trades,          \* the argument of matchTradesFifo
  sortedTrades,    \* its date-sorted copy, Trade_Cost filled in
  pc,              \* "idle", "start", "loop" (the for loop), "done"
  i,               \* index in sortedTrades of the trade the loop is at
  openPositions,   \* ticker -> list of positions, in order of entry
  completedTrades, \* the MatchedTrades emitted so far
  pairing,         \* history: for each completedTrade, the position (index in
                   \* openPositions[ticker]) and the exit (index in
                   \* sortedTrades) it pairs, and the two quantities
                   \* (position.contracts, contractsToClose) read when it was built
  results,         \* the argument of processCSVData
  now,             \* the time at which processCSVData runs
  outcome,         \* what processCSVData returned or threw; pending before
  files,           \* CsvUploader: the FileList of the upload in flight or last run
  fi,              \* index in files of the file being parsed; 0 when none is
  seen,            \* uploadedFiles as the running handleFileUpload closed over it
  processedDataArray, \* the local array of handleFileUpload
  sources,         \* history: for each element of processedDataArray, the index
                   \* in files of the file it was made from
  processedData,   \* state of the component: the stored result, or Null
  error,           \* state of the component: the messages shown, in order
  loading,         \* state of the component
  uploadedFiles,   \* state of the component: the names listed as uploaded
  handed,          \* the argument of the last call of onFileUpload, or Null
  recorded,        \* history: for each name of uploadedFiles, the trades of the
                   \* file that was processed under it
  matchedTradesProp, \* the matchedTrades array RiskAdjustedReturns is given
  originalOrder,   \* history: that array as it was before the component rendered
  initialCapital,  \* the capital figure the user typed
  metrics,         \* what calculateRiskMetrics returned; pending before
  dateStr,         \* the argument of parseDate
  parsedDate       \* the Date parseDate returned; pending before

matchVars == <<trades, sortedTrades, pc, i, openPositions, completedTrades, pairing>>

uploadVars == <<files, fi, seen, processedDataArray, sources, processedData, error,
                loading, uploadedFiles, handed, recorded>>

riskVars == <<matchedTradesProp, originalOrder, initialCapital, metrics>>

dateVars == <<dateStr, parsedDate>>

\* [...trades].sort((a, b) => a.Date.getTime() - b.Date.getTime()):
\* a stable sort, ascending by date.
RECURSIVE InsertByDate(_, _)
InsertByDate(sorted, t) ==
  IF sorted = <<>> THEN <<t>>
  ELSE IF sorted[Len(sorted)].Date <= t.Date THEN Append(sorted, t)
  ELSE Append(InsertByDate(SubSeq(sorted, 1, Len(sorted) - 1), t), sorted[Len(sorted)])

\* the list as it was given, unsorted
KeepOrder(ts) == ts

RECURSIVE SortByDate(_)
SortByDate(ts) ==
  IF ts = <<>> THEN <<>>
  ELSE InsertByDate(SortByDate(SubSeq(ts, 1, Len(ts) - 1)), ts[Len(ts)])

RAbs(a) == [n |-> Abs(a.n), d |-> a.d]

calculateTradeCost(row) ==
  IF row.Type = "settlement" \/ (row.Type = "trade" /\ ~IsZero(row.Realized_Profit))
  THEN RAbs(row.Realized_Cost)
  ELSE IF row.Type = "trade" /\ IsZero(row.Realized_Profit)
  THEN RMul(Num(row.Contracts), Rat(row.Average_Price, 100))
  ELSE Num(0)

WithTradeCost(ts) ==
  [k \in 1 .. Len(ts) |-> [ts[k] EXCEPT !.Trade_Cost = calculateTradeCost(ts[k])]]

IsEntry(trade) == trade.Type = "trade" /\ IsZero(trade.Realized_Profit)

IsExit(trade) ==
  trade.Type = "settlement" \/ (trade.Type = "trade" /\ ~IsZero(trade.Realized_Profit))

NewPosition(trade) ==
  [ticker |-> trade.Ticker, direction |-> trade.Direction,
   contracts |-> trade.Contracts, avg_price |-> trade.Average_Price,
   entry_date |-> trade.Date, entry_fee |-> OrZero(trade.Fees),
   cost |-> trade.Trade_Cost, is_closed |-> FALSE]

\* a filter that forgets the is_closed flag
EligibleIgnoringClosed(p, direction) ==
  \/ p.direction = direction
  \/ (p.direction = "Yes" /\ direction = "No")
  \/ (p.direction = "No" /\ direction = "Yes")

\* the filter predicate of matchingPositions
Eligible(p, direction) ==
  /\ ~p.is_closed
  /\ \/ p.direction = direction
     \/ (p.direction = "Yes" /\ direction = "No")
     \/ (p.direction = "No" /\ direction = "Yes")

RECURSIVE FilterIdx(_, _, _)
FilterIdx(positions, direction, from) ==
  IF from > Len(positions) THEN <<>>
  ELSE IF Eligible(positions[from], direction)
       THEN <<from>> \o FilterIdx(positions, direction, from + 1)
       ELSE FilterIdx(positions, direction, from + 1)

\* matchingPositions, as the indices of the positions the filter keeps
\* (the filtered array holds the same position objects), oldest first
MatchingPositions(positions, direction) == FilterIdx(positions, direction, 1)

\* exitPrice of an exit row, in cents
ExitPriceOf(trade) ==
  IF trade.Type = "settlement"
  THEN RMul(RDiv(trade.Realized_Revenue, Num(trade.Contracts)), Num(100))
  ELSE Num(trade.Average_Price)

\* the profit of the whole row for every contract closed
RealizedProfitOfRow(trade) == trade.Realized_Profit

RealizedProfitPerContract(trade) ==
  IF ~IsZero(trade.Realized_Profit)
  THEN RDiv(trade.Realized_Profit, Num(trade.Contracts))
  ELSE Num(0)

\* a close priced as a sale of the same contract: exit price less entry price
TradeProfitAsSale(contractsClosed, entryPrice, exitPrice) ==
  RDiv(RMul(Num(contractsClosed), RSub(exitPrice, Num(entryPrice))), Num(100))

\* profit of a non-settlement close, lines 348-352
TradeProfit(contractsClosed, entryPrice, exitPrice) ==
  RDiv(RMul(Num(contractsClosed), RSub(Num(100 - entryPrice), exitPrice)), Num(100))

\* ROI of a MatchedTrade of the matcher, line 373
FifoROI(netProfit, entryCost) == RDiv(netProfit, entryCost)

\* the MatchedTrade built for one (position, exit) pairing
BuildMatchedTrade(trade, position, contractsToClose, contractsClosed) ==
  LET exitPrice == ExitPriceOf(trade)
      profit ==
        IF trade.Type = "settlement"
        THEN RMul(RealizedProfitPerContract(trade), Num(contractsClosed))
        ELSE TradeProfit(contractsClosed, position.avg_price, exitPrice)
      finalExitPrice ==
        IF trade.Type = "settlement" THEN exitPrice ELSE RSub(Num(100), exitPrice)
      entryCost == RMul(position.cost, Rat(contractsClosed, position.contracts))
      proportionalEntryFee ==
        RMul(position.entry_fee, Rat(contractsClosed, position.contracts))
      proportionalExitFee ==
        RMul(OrZero(trade.Fees), Rat(contractsClosed, contractsToClose))
      totalFees == RAdd(proportionalEntryFee, proportionalExitFee)
  IN  [Ticker |-> position.ticker,
       Entry_Date |-> position.entry_date,
       Exit_Date |-> trade.Date,
       Entry_Direction |-> position.direction,
       Exit_Type |-> trade.Type,
       Contracts |-> contractsClosed,
       Entry_Cost |-> entryCost,
       Realized_Profit |-> profit,
       Net_Profit |-> RSub(profit, totalFees),
       Holding_Period_Days |-> Rat(trade.Date - position.entry_date, MsPerDay),
       ROI |-> FifoROI(RSub(profit, totalFees), entryCost),
       Entry_Fee |-> proportionalEntryFee,
       Exit_Fee |-> proportionalExitFee,
       Total_Fees |-> totalFees,
       Entry_Price |-> Num(position.avg_price),
       Exit_Price |-> finalExitPrice]

\* newest position first
VisitNewestFirst(idxs) == [k \in 1 .. Len(idxs) |-> idxs[Len(idxs) + 1 - k]]

\* the order in which the inner loop visits matchingPositions
VisitOrder(idxs) == idxs

\* for (const position of matchingPositions) { ... }: st carries the
\* positions of the ticker, contractsToClose, and what was emitted
RECURSIVE CloseLoop(_, _, _, _)
CloseLoop(trade, exitIdx, idxs, st) ==
  IF idxs = <<>> \/ st.contractsToClose <= 0 THEN st
  ELSE
    LET j == Head(idxs)
        position == st.positions[j]
        contractsClosed == Min(st.contractsToClose, position.contracts)
        remaining == position.contracts - contractsClosed
    IN  CloseLoop(trade, exitIdx, Tail(idxs),
          [positions |-> [st.positions EXCEPT
                            ![j].contracts = remaining,
                            ![j].is_closed = (remaining <= 0)],
           contractsToClose |-> st.contractsToClose - contractsClosed,
           emitted |-> Append(st.emitted,
                         BuildMatchedTrade(trade, position, st.contractsToClose,
                                           contractsClosed)),
           pairs |-> Append(st.pairs,
                       [ticker |-> trade.Ticker, pos |-> j, exit |-> exitIdx,
                        posContracts |-> position.contracts,
                        contractsToClose |-> st.contractsToClose])])

\* the state of the matcher before the loop, lines 268-269
EmptyMatch ==
  [openPositions |-> [t \in Tickers |-> <<>>], completedTrades |-> <<>>,
   pairing |-> <<>>]

\* a loop body that keeps one book of positions for all the tickers
LoopBodyOneBook(m, trade, idx) ==
  IF IsEntry(trade)
  THEN [m EXCEPT !.openPositions =
                   [t \in Tickers |-> Append(m.openPositions[t], NewPosition(trade))]]
  ELSE IF IsExit(trade)
  THEN LET matching ==
             MatchingPositions(m.openPositions[trade.Ticker], trade.Direction)
           st == CloseLoop(trade, idx, VisitOrder(matching),
                   [positions |-> m.openPositions[trade.Ticker],
                    contractsToClose |-> trade.Contracts,
                    emitted |-> <<>>, pairs |-> <<>>])
       IN  IF matching = <<>> THEN m
           ELSE [openPositions |-> [t \in Tickers |-> st.positions],
                 completedTrades |-> m.completedTrades \o st.emitted,
                 pairing |-> m.pairing \o st.pairs]
  ELSE m

\* the body of the loop over sortedTrades, lines 276-391, on the trade at idx
LoopBody(m, trade, idx) ==
  IF IsEntry(trade)
  THEN [m EXCEPT !.openPositions[trade.Ticker] = Append(@, NewPosition(trade))]
  ELSE IF IsExit(trade)
  THEN LET matching ==
             MatchingPositions(m.openPositions[trade.Ticker], trade.Direction)
           st == CloseLoop(trade, idx, VisitOrder(matching),
                   [positions |-> m.openPositions[trade.Ticker],
                    contractsToClose |-> trade.Contracts,
                    emitted |-> <<>>, pairs |-> <<>>])
       IN  IF matching = <<>> THEN m
           ELSE [openPositions |->
                   [m.openPositions EXCEPT ![trade.Ticker] = st.positions],
                 completedTrades |-> m.completedTrades \o st.emitted,
                 pairing |-> m.pairing \o st.pairs]
  ELSE m

RECURSIVE RunLoop(_, _, _)
RunLoop(m, ts, idx) ==
  IF idx > Len(ts) THEN m ELSE RunLoop(LoopBody(m, ts[idx], idx), ts, idx + 1)

\* the value matchTradesFifo returns
matchTradesFifo(ts) == RunLoop(EmptyMatch, WithTradeCost(SortByDate(ts)), 1).completedTrades

Current == [openPositions |-> openPositions, completedTrades |-> completedTrades,
            pairing |-> pairing]

Iterate ==
  /\ pc = "loop"
  /\ i <= Len(sortedTrades)
  /\ LET m == LoopBody(Current, sortedTrades[i], i)
     IN  /\ openPositions' = m.openPositions
         /\ completedTrades' = m.completedTrades
         /\ pairing' = m.pairing
  /\ i' = i + 1
  /\ UNCHANGED <<trades, sortedTrades, pc, results, now, outcome, uploadVars, riskVars, dateVars>>

MatchInit ==
  /\ trades \in SeqsUpTo(TradeSet, MaxTrades)
  /\ sortedTrades = <<>>
  /\ pc = "start"
  /\ i = 0
  /\ openPositions = EmptyMatch.openPositions
  /\ completedTrades = <<>>
  /\ pairing = <<>>

\* lines 260-274: sort a copy, fill in Trade_Cost, start the loop
Begin ==
  /\ pc = "start"
  /\ sortedTrades' = WithTradeCost(SortByDate(trades))
  /\ pc' = "loop"
  /\ i' = 1
  /\ UNCHANGED <<trades, openPositions, completedTrades, pairing, results, now, outcome, uploadVars, riskVars, dateVars>>

\* one iteration of the loop, on an entry trade: push a position
ProcessEntry ==
  /\ Iterate
  /\ IsEntry(sortedTrades[i])

\* one iteration of the loop, on an exit trade that finds open positions
ProcessExit ==
  /\ Iterate
  /\ ~IsEntry(sortedTrades[i])
  /\ IsExit(sortedTrades[i])
  /\ MatchingPositions(openPositions[sortedTrades[i].Ticker],
                       sortedTrades[i].Direction) # <<>>

\* one iteration of the loop, on an exit trade with no eligible position:
\* warn and continue
UnmatchedExit ==
  /\ Iterate
  /\ ~IsEntry(sortedTrades[i])
  /\ IsExit(sortedTrades[i])
  /\ MatchingPositions(openPositions[sortedTrades[i].Ticker],
                       sortedTrades[i].Direction) = <<>>

\* one iteration of the loop, on a trade that is neither entry nor exit
SkipOther ==
  /\ Iterate
  /\ ~IsEntry(sortedTrades[i])
  /\ ~IsExit(sortedTrades[i])

\* lines 393-404: drop the closed positions and return completedTrades
Finish ==
  /\ pc = "loop"
  /\ i > Len(sortedTrades)
  /\ openPositions' =
       [t \in Tickers |->
          LET ps == openPositions[t]
              F[k \in 0 .. Len(ps)] ==
                IF k = 0 THEN <<>>
                ELSE IF ps[k].is_closed THEN F[k - 1] ELSE Append(F[k - 1], ps[k])
          IN  F[Len(ps)]]
  /\ pc' = "done"
  /\ UNCHANGED <<trades, sortedTrades, i, completedTrades, pairing, results, now, outcome, uploadVars, riskVars, dateVars>>

\* ------------------------------------------------------------------------
\* Parsed CSV files: headers, rows and cells
\* ------------------------------------------------------------------------

\* Longest file, in rows.
MaxRows == 2

\* String.prototype.toLowerCase, on the strings of the model that are not
\* already in lower case
toLowerCase(str) ==
  CASE str = "Ticker" -> "ticker"
    [] str = "Type" -> "type"
    [] str = "Direction" -> "direction"
    [] str = "Contracts" -> "contracts"
    [] str = "Average_Price" -> "average_price"
    [] str = "Realized_Revenue" -> "realized_revenue"
    [] str = "Realized_Cost" -> "realized_cost"
    [] str = "Realized_Profit" -> "realized_profit"
    [] str = "Fees" -> "fees"
    [] str = "Created" -> "created"
    [] str = "TICKER" -> "ticker"
    [] str = "Market_Ticker" -> "market_ticker"
    [] str = "Credit" -> "credit"
    [] str = "Settlement" -> "settlement"
    [] str = "Yes" -> "yes"
    [] str = "No" -> "no"
    [] str = "YES" -> "yes"
    [] OTHER -> str

\* String.prototype.trim, on the strings of the model that have spaces
\* around them
trim(str) ==
  CASE str = " TICKER " -> "TICKER"
    [] str = " Created" -> "Created"
    [] OTHER -> str

LEGACY_COLUMNS ==
  <<"ticker", "type", "direction", "contracts", "average_price", "created">>

NEW_FORMAT_COLUMNS ==
  <<"market_ticker", "quantity", "side", "entry_price_cents", "exit_price_cents",
    "realized_pnl_with_fees_cents">>

\* a normaliser that trims but keeps the case
normalizeHeaderKeepingCase(header) == trim(header)

normalizeHeader(header) == toLowerCase(trim(header))

\* A cell of a parsed row is a string: a number as text (with or without a
\* leading '$'), some other text, or the empty string.  A property the row
\* does not have reads as Undefined.
NumCell(v) == [kind |-> "num", value |-> v, dollar |-> FALSE]

DollarCell(v) == [kind |-> "num", value |-> v, dollar |-> TRUE]

TextCell(str) == [kind |-> "text", text |-> str]

EmptyCell == [kind |-> "empty"]

\* row.<name>: rows are keyed by the header strings as written in the file
Get(row, name) == IF name \in DOMAIN row THEN row[name] ELSE Undefined

\* truthiness of a cell: undefined and '' are falsy
Truthy(c) == c # Undefined /\ c.kind # "empty"

\* a || b
Or(a, b) == IF Truthy(a) THEN a ELSE b

\* what a string-valued property reads as when the row does not have it
NoText == "<undefined>"

\* the string a text cell holds
TextOf(c) ==
  IF c = Undefined THEN NoText
  ELSE IF c.kind = "empty" THEN ""
  ELSE c.text

\* parseFloat of a cell: a number only when the text starts with one
parseFloat(c) ==
  IF c # Undefined /\ c.kind = "num" /\ ~c.dollar THEN c.value ELSE NaN

\* lines 78-86: strip '$', ',' and '%', parseFloat, NaN becomes 0
parseNumber(c) ==
  IF c # Undefined /\ c.kind = "num" THEN c.value ELSE Num(0)

centsToDollars(c) == RDiv(parseNumber(c), Num(100))

\* lines 88-94
normalizeDirection(direction) ==
  IF direction = NoText \/ direction = "" THEN "Unknown"
  ELSE LET lower == toLowerCase(direction)
       IN  IF lower = "yes" \/ lower = "y" THEN "Yes"
           ELSE IF lower = "no" \/ lower = "n" THEN "No"
           ELSE direction

\* lines 498-501
cleanMoney(c) ==
  IF ~Truthy(c) THEN Num(0)
  ELSE IF c.kind = "num" THEN OrZero(c.value) ELSE Num(0)

\* The timestamps of the model are machine-readable instants, which
\* parseDate resolves through new Date(dateStr), lines 156-159; any other
\* text, and a missing value (the TypeError is caught), give the current time.
Timestamp(ms) == [kind |-> "instant", ms |-> ms]

parseDate(c, nowMs) ==
  IF c # Undefined /\ c.kind = "instant" THEN c.ms ELSE nowMs

\* whole-number value of a double
ToInt(a) == a.n \div a.d

\* ------------------------------------------------------------------------
\* processCSVData
\* ------------------------------------------------------------------------

\* lines 494-495: the rows the legacy path keeps, as indices into the data
LegacyKept(data) ==
  LET F[k \in 0 .. Len(data)] ==
        IF k = 0 THEN <<>>
        ELSE IF Truthy(Get(data[k], "Ticker")) /\ TextOf(Get(data[k], "Type")) # "credit"
             THEN Append(F[k - 1], k) ELSE F[k - 1]
  IN  F[Len(data)]

\* lines 503-516
LegacyTrade(row, nowMs) ==
  [Ticker |-> TextOf(Get(row, "Ticker")),
   Type |-> TextOf(Get(row, "Type")),
   Direction |-> TextOf(Get(row, "Direction")),
   Contracts |-> ToInt(OrZero(parseFloat(Get(row, "Contracts")))),
   Average_Price |-> ToInt(OrZero(parseFloat(Get(row, "Average_Price")))),
   Realized_Revenue |-> cleanMoney(Get(row, "Realized_Revenue")),
   Realized_Cost |-> cleanMoney(Get(row, "Realized_Cost")),
   Realized_Profit |-> cleanMoney(Get(row, "Realized_Profit")),
   Fees |-> IF Truthy(Get(row, "Fees")) THEN cleanMoney(Get(row, "Fees")) ELSE Num(0),
   Date |-> parseDate(Get(row, "Created"), nowMs),
   Trade_Cost |-> Num(0)]

\* lines 176-183: whether transformNewFormatRows keeps a row
NewRowKept(row) ==
  LET rawType == TextOf(Or(Or(Get(row, "type"), Get(row, "Type")), EmptyCell))
      ticker == Or(Get(row, "market_ticker"), Get(row, "Ticker"))
      contracts == parseNumber(Or(Get(row, "quantity"), Get(row, "Contracts")))
  IN  /\ toLowerCase(rawType) # "credit"
      /\ Truthy(ticker)
      /\ ~RLeq(contracts, Num(0))

NewKept(data) ==
  LET F[k \in 0 .. Len(data)] ==
        IF k = 0 THEN <<>>
        ELSE IF NewRowKept(data[k]) THEN Append(F[k - 1], k) ELSE F[k - 1]
  IN  F[Len(data)]

\* ROI of a MatchedTrade of a new-format row, line 232
NewFormatROI(pnlWithFees, entryCost) ==
  IF ~IsZero(entryCost) THEN RDiv(pnlWithFees, entryCost) ELSE Undefined

\* lines 185-238: the Trade and the MatchedTrade of a kept row; index is the
\* row's 0-based position, length the number of rows, nowMs the current time
NewFormatRow(row, index, length, nowMs) ==
  LET rawType ==
        toLowerCase(TextOf(Or(Or(Get(row, "type"), Get(row, "Type")), EmptyCell)))
      ticker == TextOf(Or(Get(row, "market_ticker"), Get(row, "Ticker")))
      contracts == parseNumber(Or(Get(row, "quantity"), Get(row, "Contracts")))
      entryPriceCents ==
        parseNumber(Or(Get(row, "entry_price_cents"), Get(row, "Entry_Price")))
      exitPriceCents ==
        parseNumber(Or(Get(row, "exit_price_cents"), Get(row, "Exit_Price")))
      openFees == centsToDollars(Or(Get(row, "open_fees_cents"), Get(row, "Open_Fees")))
      closeFees == centsToDollars(Or(Get(row, "close_fees_cents"), Get(row, "Close_Fees")))
      pnlWithoutFees ==
        centsToDollars(Or(Get(row, "realized_pnl_without_fees_cents"),
                          Get(row, "Realized_PnL_Without_Fees")))
      pnlWithFees ==
        centsToDollars(Or(Get(row, "realized_pnl_with_fees_cents"),
                          Get(row, "Realized_PnL_With_Fees")))
      direction == normalizeDirection(TextOf(Or(Get(row, "side"), Get(row, "Direction"))))
      entryTimestamp ==
        Or(Get(row, "open_timestamp"),
           Or(Get(row, "entry_timestamp"),
              Or(Get(row, "opened_at"), Or(Get(row, "created_at"), Get(row, "Created")))))
      exitTimestamp ==
        Or(Get(row, "close_timestamp"),
           Or(Get(row, "exit_timestamp"),
              Or(Get(row, "closed_at"),
                 Or(Get(row, "updated_at"), Or(Get(row, "Updated"), Get(row, "Closed"))))))
      entryDate ==
        IF Truthy(entryTimestamp) THEN parseDate(entryTimestamp, nowMs)
        ELSE nowMs - (length - index) * 1000
      exitDate == IF Truthy(exitTimestamp) THEN parseDate(exitTimestamp, nowMs) ELSE entryDate
      entryCost == RMul(contracts, RDiv(entryPriceCents, Num(100)))
      exitProceeds == RMul(contracts, RDiv(exitPriceCents, Num(100)))
      totalFees == RAdd(openFees, closeFees)
      isSettlement ==
        exitPriceCents = Num(0) \/ exitPriceCents = Num(100) \/ rawType = "settlement"
      tradeType == IF isSettlement THEN "settlement" ELSE "trade"
  IN  [trade |->
         [Ticker |-> ticker, Type |-> tradeType, Direction |-> direction,
          Contracts |-> ToInt(contracts), Average_Price |-> ToInt(entryPriceCents),
          Realized_Revenue |-> exitProceeds, Realized_Cost |-> entryCost,
          Realized_Profit |-> pnlWithFees, Fees |-> totalFees,
          Date |-> exitDate, Trade_Cost |-> entryCost],
       matched |->
         [Ticker |-> ticker, Entry_Date |-> entryDate, Exit_Date |-> exitDate,
          Entry_Direction |-> direction, Exit_Type |-> tradeType,
          Contracts |-> ToInt(contracts), Entry_Cost |-> entryCost,
          Realized_Profit |-> pnlWithoutFees, Net_Profit |-> pnlWithFees,
          Holding_Period_Days |-> Rat(exitDate - entryDate, MsPerDay),
          ROI |-> NewFormatROI(pnlWithFees, entryCost),
          Entry_Fee |-> openFees, Exit_Fee |-> closeFees, Total_Fees |-> totalFees,
          Entry_Price |-> entryPriceCents, Exit_Price |-> exitPriceCents]]

\* a transformation that makes a MatchedTrade of the settled rows only
transformSettledRows(rows, nowMs) ==
  LET kept == NewKept(rows)
      out == [k \in 1 .. Len(kept) |->
                NewFormatRow(rows[kept[k]], kept[k] - 1, Len(rows), nowMs)]
  IN  [trades |-> [k \in 1 .. Len(kept) |-> out[k].trade],
       matchedTrades |->
         SelectSeq([k \in 1 .. Len(kept) |-> out[k].matched],
                   LAMBDA m : m.Exit_Type = "settlement")]

\* lines 169-242
transformNewFormatRows(rows, nowMs) ==
  LET kept == NewKept(rows)
      out == [k \in 1 .. Len(kept) |->
                NewFormatRow(rows[kept[k]], kept[k] - 1, Len(rows), nowMs)]
  IN  [trades |-> [k \in 1 .. Len(kept) |-> out[k].trade],
       matchedTrades |-> [k \in 1 .. Len(kept) |-> out[k].matched]]

\* LEGACY_COLUMNS.every(col => headers.includes(col))
HasAll(columns, headers) ==
  \A c \in 1 .. Len(columns) : \E h \in 1 .. Len(headers) : headers[h] = columns[c]

Failure(message) == [status |-> "error", message |-> message]

\* which of the two sets of columns decides the path, lines 471-479
ChoosePath(hasLegacyColumns, hasNewColumns) ==
  IF ~hasLegacyColumns /\ ~hasNewColumns THEN "none"
  ELSE IF hasNewColumns /\ ~hasLegacyColumns THEN "new"
  ELSE "legacy"

\* ------------------------------------------------------------------------
\* calculateBasicStats
\* ------------------------------------------------------------------------

\* seq.reduce((sum, x) => sum + Term(x), 0)
SumOver(seq, Term(_)) ==
  LET F[k \in 0 .. Len(seq)] ==
        IF k = 0 THEN Num(0) ELSE RAdd(F[k - 1], Term(seq[k]))
  IN  F[Len(seq)]

\* trade.Net_Profit > 0; false for NaN
IsWin(trade) == RLess(Num(0), trade.Net_Profit)

\* a test that takes every matched trade for a settled one
IsSettledAlways(trade) == TRUE

\* trade.Exit_Type === 'settlement'
IsSettled(trade) == trade.Exit_Type = "settlement"

\* lines 411-417 and 446-449: the contracts traded in a direction
ContractsIn(ts, dir) ==
  LET F[k \in 0 .. Len(ts)] ==
        IF k = 0 THEN 0
        ELSE IF normalizeDirection(ts[k].Direction) = dir
             THEN F[k - 1] + ts[k].Contracts ELSE F[k - 1]
  IN  F[Len(ts)]

\* lines 408-458
calculateBasicStats(ts, ms) ==
  LET totalContracts == SumOver(ms, LAMBDA t : Num(t.Contracts))
      totalTradeValue == SumOver(ms, LAMBDA t : t.Entry_Cost)
      settledTrades == SelectSeq(ms, IsSettled)
  IN  [uniqueTickers |-> Cardinality({ts[k].Ticker : k \in 1 .. Len(ts)}),
       totalTrades |-> Len(ts),
       yesNoBreakdown |-> [Yes |-> ContractsIn(ts, "Yes"), No |-> ContractsIn(ts, "No")],
       totalFees |-> SumOver(ts, LAMBDA t : OrZero(t.Fees)),
       totalProfit |-> SumOver(ts, LAMBDA t : OrZero(t.Realized_Profit)),
       avgContractPurchasePrice |->
         IF RLess(Num(0), totalContracts)
         THEN RDiv(SumOver(ms, LAMBDA t : RMul(t.Entry_Price, Num(t.Contracts))),
                   totalContracts)
         ELSE Num(0),
       avgContractFinalPrice |->
         IF RLess(Num(0), totalContracts)
         THEN RDiv(SumOver(ms, LAMBDA t : RMul(t.Exit_Price, Num(t.Contracts))),
                   totalContracts)
         ELSE Num(0),
       weightedHoldingPeriod |->
         IF RLess(Num(0), totalTradeValue)
         THEN SumOver(ms, LAMBDA t : RMul(t.Holding_Period_Days,
                                          RDiv(t.Entry_Cost, totalTradeValue)))
         ELSE Num(0),
       winRate |->
         IF Len(ms) > 0 THEN Rat(Len(SelectSeq(ms, IsWin)), Len(ms)) ELSE Num(0),
       settledWinRate |->
         IF Len(settledTrades) > 0
         THEN Rat(Len(SelectSeq(settledTrades, IsWin)), Len(settledTrades))
         ELSE Num(0)]

\* a check that never finds the list empty
NoTradesLeftNever(ts) == FALSE

\* trades.length === 0, lines 481 and 526
NoTradesLeft(ts) == Len(ts) = 0

\* lines 461-543: the ProcessedData returned, or the error thrown
processCSVData(res, nowMs) ==
  IF res.data = <<>> THEN Failure("Invalid CSV format: No data found")
  ELSE
    LET headers == [k \in 1 .. Len(res.fields) |-> normalizeHeader(res.fields[k])]
        path == ChoosePath(HasAll(LEGACY_COLUMNS, headers),
                           HasAll(NEW_FORMAT_COLUMNS, headers))
        rawData == res.data
    IN  IF path = "none"
        THEN Failure("Invalid CSV format: Missing required columns for both legacy and new Kalshi exports.")
        ELSE IF path = "new"
        THEN LET t == transformNewFormatRows(rawData, nowMs)
             IN  IF NoTradesLeft(t.trades) THEN Failure("No valid trades found in the CSV file")
                 ELSE [status |-> "ok", path |-> "new", originalData |-> rawData,
                       trades |-> t.trades, matchedTrades |-> t.matchedTrades,
                       basicStats |-> calculateBasicStats(t.trades, t.matchedTrades)]
        ELSE LET kept == LegacyKept(rawData)
                 ts == [k \in 1 .. Len(kept) |-> LegacyTrade(rawData[kept[k]], nowMs)]
             IN  IF NoTradesLeft(ts) THEN Failure("No valid trades found in the CSV file")
                 ELSE [status |-> "ok", path |-> "legacy", originalData |-> rawData,
                       trades |-> ts, matchedTrades |-> matchTradesFifo(ts),
                       basicStats |-> calculateBasicStats(ts, matchTradesFifo(ts))]

\* ------------------------------------------------------------------------
\* The files of the model
\* ------------------------------------------------------------------------

\* A layout is the header row of a file: for each column, the header as
\* written and the column of the export it holds.
Canonical(names) == [k \in 1 .. Len(names) |-> <<names[k], names[k]>>]

LegacyNames ==
  <<"Ticker", "Type", "Direction", "Contracts", "Average_Price", "Realized_Revenue",
    "Realized_Cost", "Realized_Profit", "Fees", "Created">>

NewNames ==
  <<"market_ticker", "quantity", "side", "entry_price_cents", "exit_price_cents",
    "realized_pnl_with_fees_cents", "realized_pnl_without_fees_cents",
    "open_fees_cents", "close_fees_cents", "open_timestamp", "close_timestamp", "type">>

\* the legacy export as Kalshi writes it
LegacyLayout == Canonical(LegacyNames)

\* the legacy columns with lower-case headers
LowerLegacyLayout == [k \in 1 .. Len(LegacyNames) |->
                        <<toLowerCase(LegacyNames[k]), LegacyNames[k]>>]

\* the legacy columns with an upper-case, padded ticker header
PaddedLegacyLayout == [LegacyLayout EXCEPT ![1] = <<" TICKER ", "Ticker">>,
                                           ![10] = <<" Created", "Created">>]

\* the legacy export without its Created column
IncompleteLegacyLayout == SubSeq(LegacyLayout, 1, 9)

\* the new export
NewLayout == Canonical(NewNames)

\* the six required columns of the new export only
BareNewLayout == SubSeq(NewLayout, 1, 6)

\* the new export with a capitalised ticker header
CapitalNewLayout == [NewLayout EXCEPT ![1] = <<"Market_Ticker", "market_ticker">>]

\* the new export without its side column
IncompleteNewLayout == SubSeq(NewLayout, 1, 2) \o SubSeq(NewLayout, 4, 12)

\* a file with the columns of both exports
BothLayout == LegacyLayout \o BareNewLayout

LegacyRow(ticker, type, contracts, profit, created) ==
  [Ticker |-> ticker, Type |-> TextCell(type), Direction |-> TextCell("Yes"),
   Contracts |-> contracts, Average_Price |-> NumCell(Num(30)),
   Realized_Revenue |-> DollarCell(Num(0)), Realized_Cost |-> DollarCell(Num(0)),
   Realized_Profit |-> profit, Fees |-> DollarCell(Rat(6, 100)),
   Created |-> Timestamp(created)]

LegacyRows ==
  {LegacyRow(TextCell("T1"), "trade", NumCell(Num(c)), DollarCell(Num(0)), 0) :
     c \in {-1, 0, 1, 2}}
  \cup {LegacyRow(TextCell("T1"), "trade", NumCell(Num(2)), DollarCell(Num(1)), MsPerDay),
        LegacyRow(TextCell("T1"), "settlement", NumCell(Num(1)), DollarCell(Num(1)), MsPerDay),
        LegacyRow(TextCell("T1"), "credit", NumCell(Num(1)), DollarCell(Num(0)), 0),
        LegacyRow(EmptyCell, "trade", NumCell(Num(2)), DollarCell(Num(0)), 0),
        LegacyRow(TextCell("T1"), "trade", TextCell("n/a"), DollarCell(Num(0)), 0),
        LegacyRow(TextCell("T2"), "trade", NumCell(Num(1)), DollarCell(Num(0)), 0)}

NewRow(ticker, quantity, side, entryPrice, exitPrice, type) ==
  [market_ticker |-> ticker, quantity |-> quantity, side |-> TextCell(side),
   entry_price_cents |-> NumCell(Num(entryPrice)),
   exit_price_cents |-> NumCell(Num(exitPrice)),
   realized_pnl_with_fees_cents |-> NumCell(Num(63)),
   realized_pnl_without_fees_cents |-> NumCell(Num(70)),
   open_fees_cents |-> NumCell(Num(3)), close_fees_cents |-> NumCell(Num(4)),
   open_timestamp |-> Timestamp(0), close_timestamp |-> Timestamp(MsPerDay),
   type |-> type]

\* a position bought at 30 and sold at 20, at a loss
LosingNewRow ==
  [NewRow(TextCell("T1"), NumCell(Num(1)), "yes", 30, 20, EmptyCell)
     EXCEPT !.realized_pnl_with_fees_cents = NumCell(Num(-17)),
            !.realized_pnl_without_fees_cents = NumCell(Num(-10))]

NewRows ==
  {NewRow(TextCell("T1"), NumCell(Num(q)), "yes", 30, 100, EmptyCell) : q \in {-1, 0, 2}}
  \cup {NewRow(TextCell("T1"), NumCell(Num(1)), "no", 30, 80, EmptyCell),
        NewRow(TextCell("T1"), NumCell(Num(1)), "YES", 0, 100, EmptyCell),
        NewRow(EmptyCell, NumCell(Num(2)), "yes", 30, 100, EmptyCell),
        NewRow(TextCell("T1"), NumCell(Num(2)), "yes", 30, 100, TextCell("Credit")),
        NewRow(TextCell("T2"), NumCell(Num(1)), "yes", 30, 80, TextCell("Settlement")),
        LosingNewRow}

\* rows that have the columns of both exports
BothRows ==
  {[c \in DOMAIN l \cup DOMAIN n |-> IF c \in DOMAIN l THEN l[c] ELSE n[c]] :
     l \in {LegacyRow(TextCell("T1"), "trade", NumCell(Num(c)), DollarCell(Num(0)), 0) :
              c \in {0, 2}},
     n \in {NewRow(TextCell("T1"), NumCell(Num(2)), "yes", 30, 100, EmptyCell)}}

\* the parse result of a file with the given layout and rows: what
\* Papa.parse(file, {header: true}) hands to complete
Parsed(layout, rows) ==
  [fields |-> [k \in 1 .. Len(layout) |-> layout[k][1]],
   data |-> [r \in 1 .. Len(rows) |->
               [h \in {layout[k][1] : k \in 1 .. Len(layout)} |->
                  LET k == CHOOSE x \in 1 .. Len(layout) : layout[x][1] = h
                  IN  rows[r][layout[k][2]]]]]

FilesOf(layouts, rowSet) ==
  {Parsed(l, rows) : l \in layouts, rows \in SeqsUpTo(rowSet, MaxRows)}

Files ==
  FilesOf({LegacyLayout, LowerLegacyLayout, PaddedLegacyLayout, IncompleteLegacyLayout},
          LegacyRows)
  \cup FilesOf({NewLayout, BareNewLayout, CapitalNewLayout, IncompleteNewLayout}, NewRows)
  \cup FilesOf({BothLayout}, BothRows)

\* the current time
NowValues == {3 * MsPerDay}

csvVars == <<results, now, outcome>>

Pending == [status |-> "pending"]

MatchIdle ==
  /\ trades = <<>>
  /\ sortedTrades = <<>>
  /\ pc = "idle"
  /\ i = 0
  /\ openPositions = EmptyMatch.openPositions
  /\ completedTrades = <<>>
  /\ pairing = <<>>

CsvIdle ==
  /\ results = [fields |-> <<>>, data |-> <<>>]
  /\ now \in NowValues
  /\ outcome = Pending

CsvInit ==
  /\ results \in Files
  /\ now \in NowValues
  /\ outcome = Pending

\* one call of processCSVData
ProcessCSV ==
  /\ outcome = Pending
  /\ outcome' = processCSVData(results, now)
  /\ UNCHANGED <<results, now, matchVars, uploadVars, riskVars, dateVars>>

\* ------------------------------------------------------------------------
\* combineProcessedData
\* ------------------------------------------------------------------------

\* dataArray.reduce((acc, data) => [...acc, ...data[field]], [])
RECURSIVE Concat(_, _)
Concat(dataArray, field) ==
  IF dataArray = <<>> THEN <<>>
  ELSE Concat(SubSeq(dataArray, 1, Len(dataArray) - 1), field)
         \o dataArray[Len(dataArray)][field]

\* a combiner that keeps the matched trades the batches already have
combineKeepingMatches(dataArray) ==
  [status |-> "ok", path |-> "combined",
   originalData |-> Concat(dataArray, "originalData"),
   trades |-> SortByDate(Concat(dataArray, "trades")),
   matchedTrades |-> Concat(dataArray, "matchedTrades"),
   basicStats |-> calculateBasicStats(SortByDate(Concat(dataArray, "trades")),
                                      Concat(dataArray, "matchedTrades"))]

\* lines 546-568
combineProcessedData(dataArray) ==
  LET allTrades == Concat(dataArray, "trades")
      sorted == SortByDate(allTrades)
  IN  [status |-> "ok", path |-> "combined",
       originalData |-> Concat(dataArray, "originalData"),
       trades |-> sorted,
       matchedTrades |-> matchTradesFifo(sorted),
       basicStats |-> calculateBasicStats(sorted, matchTradesFifo(sorted))]

\* ------------------------------------------------------------------------
\* CsvUploader: handleFileUpload and clearData
\* ------------------------------------------------------------------------

\* Longest FileList of one upload.
MaxFiles == 2

\* useState<ProcessedData | null>(null)
Null == [null |-> TRUE]

\* A file of an upload: its name, whether Papa.parse can read it (complete)
\* or not (error), and the parse result when it can.
File(name, parsed) == [name |-> name, readable |-> TRUE, results |-> parsed]

Unreadable(name) ==
  [name |-> name, readable |-> FALSE, results |-> [fields |-> <<>>, data |-> <<>>]]

\* a legacy export that opens two contracts on T1
EntryExport ==
  Parsed(LegacyLayout,
         <<LegacyRow(TextCell("T1"), "trade", NumCell(Num(2)), DollarCell(Num(0)), 0)>>)

\* a legacy export that settles one contract on T1, a day later
ExitExport ==
  Parsed(LegacyLayout,
         <<LegacyRow(TextCell("T1"), "settlement", NumCell(Num(1)), DollarCell(Num(1)),
                     MsPerDay)>>)

\* a new-format export with one closed position on T2
OtherNewExport ==
  Parsed(NewLayout,
         <<NewRow(TextCell("T2"), NumCell(Num(1)), "yes", 30, 80, TextCell("Settlement"))>>)

\* a file that is no Kalshi export
ForeignExport ==
  Parsed(IncompleteLegacyLayout,
         <<LegacyRow(TextCell("T1"), "trade", NumCell(Num(2)), DollarCell(Num(0)), 0)>>)

\* the files an upload is made of, under two names
UploadFiles ==
  {File("a.csv", EntryExport), File("a.csv", ForeignExport),
   File("b.csv", ExitExport), File("b.csv", OtherNewExport), Unreadable("b.csv")}

\* event.target.files of one upload; an empty FileList returns at line 27
\* and changes nothing
Batches == SeqsUpTo(UploadFiles, MaxFiles) \ {<<>>}

\* uploadedFiles.includes(name)
Includes(names, name) == \E k \in 1 .. Len(names) : names[k] = name

\* lines 36-42: the next file, from index from on, that the loop does not
\* skip; 0 when the loop runs out of files
RECURSIVE NextFile(_, _, _)
NextFile(fs, from, names) ==
  IF from > Len(fs) THEN 0
  ELSE IF Includes(names, fs[from].name) THEN NextFile(fs, from + 1, names)
  ELSE from

\* a combination that adds the files of the upload to the stored result
CombinedWithStored(dataArray) ==
  IF processedData = Null THEN combineProcessedData(dataArray)
  ELSE combineProcessedData(<<processedData>> \o dataArray)

\* lines 63-65
Combined(dataArray) ==
  IF Len(dataArray) = 1 THEN dataArray[1] ELSE combineProcessedData(dataArray)

\* lines 87-103: the argument clearData hands to onFileUpload
AllZero ==
  [originalData |-> <<>>, trades |-> <<>>, matchedTrades |-> <<>>,
   basicStats |-> [uniqueTickers |-> 0, totalTrades |-> 0,
                   yesNoBreakdown |-> [Yes |-> 0, No |-> 0],
                   totalFees |-> 0, totalProfit |-> 0,
                   avgContractPurchasePrice |-> 0, avgContractFinalPrice |-> 0,
                   weightedHoldingPeriod |-> 0, winRate |-> 0, settledWinRate |-> 0]]

UploadInit ==
  /\ files = <<>>
  /\ fi = 0
  /\ seen = <<>>
  /\ processedDataArray = <<>>
  /\ sources = <<>>
  /\ processedData = Null
  /\ error = <<>>
  /\ loading = FALSE
  /\ uploadedFiles = <<>>
  /\ handed = Null
  /\ recorded = <<>>

\* lines 61-76, reached when the loop has run out of files: store and hand
\* over the combination if any file was processed, and clear loading
Conclude(dataArray) ==
  /\ fi' = 0
  /\ loading' = FALSE
  /\ IF Len(dataArray) > 0
     THEN /\ processedData' = Combined(dataArray)
          /\ handed' = Combined(dataArray)
     ELSE UNCHANGED <<processedData, handed>>

\* the loop goes on after the file at index fi: on to the await of the next
\* file it does not skip, or out of the loop
Continue(dataArray) ==
  LET k == NextFile(files, fi + 1, seen)
  IN  IF k # 0
      THEN /\ fi' = k
           /\ UNCHANGED <<loading, processedData, handed>>
      ELSE Conclude(dataArray)

\* lines 25-50: the handler starts on a FileList and runs up to its first
\* await.  uploadedFiles is read through the closure of the render the
\* handler belongs to, so the loop tests the list as it was when the upload
\* started.  The model starts an upload only when none is in flight.
HandleFileUpload ==
  /\ fi = 0
  /\ ~loading
  /\ \E fs \in Batches :
       LET k == NextFile(fs, 1, uploadedFiles)
       IN  /\ files' = fs
           /\ seen' = uploadedFiles
           /\ error' = <<>>
           /\ processedDataArray' = <<>>
           /\ sources' = <<>>
           /\ IF k # 0
              THEN /\ fi' = k
                   /\ loading' = TRUE
              ELSE /\ fi' = 0
                   /\ loading' = FALSE
           /\ UNCHANGED <<processedData, handed, uploadedFiles, recorded>>
  /\ UNCHANGED <<matchVars, csvVars, riskVars, dateVars>>

\* lines 52-55: the parse of the file completed and processCSVData returned
FileProcessed ==
  /\ fi # 0
  /\ files[fi].readable
  /\ LET processed == processCSVData(files[fi].results, now)
     IN  /\ processed.status = "ok"
         /\ processedDataArray' = Append(processedDataArray, processed)
         /\ sources' = Append(sources, fi)
         /\ uploadedFiles' = Append(uploadedFiles, files[fi].name)
         /\ recorded' = Append(recorded, processed.trades)
         /\ Continue(Append(processedDataArray, processed))
  /\ UNCHANGED <<files, seen, error, matchVars, csvVars, riskVars, dateVars>>

\* lines 56-58: the parse of the file completed and processCSVData threw
FileRejected ==
  /\ fi # 0
  /\ files[fi].readable
  /\ LET processed == processCSVData(files[fi].results, now)
     IN  /\ processed.status = "error"
         /\ error' = Append(error, [step |-> "processing", file |-> files[fi].name,
                                    message |-> processed.message])
         /\ Continue(processedDataArray)
  /\ UNCHANGED <<files, seen, processedDataArray, sources, uploadedFiles, recorded,
                 matchVars, csvVars, riskVars, dateVars>>

\* a parse failure that leaves the handler without its finally block
ParseFailedKeepsLoading ==
  /\ fi # 0
  /\ ~files[fi].readable
  /\ error' = Append(error, [step |-> "parsing", message |-> "unreadable"])
  /\ fi' = 0
  /\ UNCHANGED <<files, seen, processedDataArray, sources, processedData, loading,
                 uploadedFiles, handed, recorded, matchVars, csvVars, riskVars, dateVars>>

\* lines 72-76: the parse of the file failed; the rejected promise leaves the
\* loop through the outer catch
ParseFailed ==
  /\ fi # 0
  /\ ~files[fi].readable
  /\ error' = Append(error, [step |-> "parsing", message |-> "unreadable"])
  /\ fi' = 0
  /\ loading' = FALSE
  /\ UNCHANGED <<files, seen, processedDataArray, sources, processedData,
                 uploadedFiles, handed, recorded, matchVars, csvVars, riskVars, dateVars>>

\* lines 79-105
clearData ==
  /\ fi = 0
  /\ ~loading
  /\ processedData' = Null
  /\ error' = <<>>
  /\ uploadedFiles' = <<>>
  /\ recorded' = <<>>
  /\ handed' = AllZero
  /\ files' = <<>>
  /\ seen' = <<>>
  /\ processedDataArray' = <<>>
  /\ sources' = <<>>
  /\ UNCHANGED <<fi, loading, matchVars, csvVars, riskVars, dateVars>>

\* ------------------------------------------------------------------------
\* RiskAdjustedReturns: calculateRiskMetrics
\* ------------------------------------------------------------------------

\* Longest matched-trade list handed to RiskAdjustedReturns.
MaxMatched == 2

\* A double of the form coef * sqrt(rad), for the results of Math.sqrt;
\* a double that involves no root has rad = 1.
Plain(q) == [coef |-> q, rad |-> Num(1)]

Sqrt(q) == [coef |-> Num(1), rad |-> q]

SurdMul(a, b) == [coef |-> RMul(a.coef, b.coef), rad |-> RMul(a.rad, b.rad)]

\* q / (coef * sqrt(rad)) = (q / coef) * sqrt(1 / rad)
DivBySurd(q, a) == [coef |-> RDiv(q, a.coef), rad |-> RDiv(Num(1), a.rad)]

SurdIsZero(a) == IsZero(a.coef) \/ IsZero(a.rad)

\* the fields of a MatchedTrade that calculateRiskMetrics reads
RiskTrade(ticker, entry, exit, profit) ==
  [Ticker |-> ticker, Entry_Date |-> entry, Exit_Date |-> exit,
   Realized_Profit |-> profit]

HalfDay == MsPerDay \div 2

\* Profits and capital figures are multiples of 2500 dollars, which keeps
\* the exact daily returns within the integers of the model checker.
RiskTrades ==
  {RiskTrade("T1", 0, 0, Num(5000)),
   RiskTrade("T1", 0, MsPerDay, Num(5000)),
   RiskTrade("T2", 0, MsPerDay, Num(0)),
   RiskTrade("T2", 0, 2 * MsPerDay, Num(-10000)),
   RiskTrade("T1", HalfDay, MsPerDay + HalfDay, Num(15000)),
   RiskTrade("T2", HalfDay, HalfDay, Num(-2500))}

\* what the user can leave in the capital field: Number(value) || 0
Capitals == {-5000, 0, 5000, 20000}

\* useState<number>(10000)
DefaultCapital == 10000

\* .sort((a, b) => a.Exit_Date.getTime() - b.Exit_Date.getTime()): a stable
\* sort, ascending by exit date
RECURSIVE InsertByExitDate(_, _)
InsertByExitDate(sorted, t) ==
  IF sorted = <<>> THEN <<t>>
  ELSE IF sorted[Len(sorted)].Exit_Date <= t.Exit_Date THEN Append(sorted, t)
  ELSE Append(InsertByExitDate(SubSeq(sorted, 1, Len(sorted) - 1), t),
              sorted[Len(sorted)])

RECURSIVE SortByExitDate(_)
SortByExitDate(ts) ==
  IF ts = <<>> THEN <<>>
  ELSE InsertByExitDate(SortByExitDate(SubSeq(ts, 1, Len(ts) - 1)), ts[Len(ts)])

\* setHours(0, 0, 0, 0) and the date key: the day an instant falls on
\* (the model's clock is UTC)
Day(ms) == ms \div MsPerDay

MinOf(S) == CHOOSE x \in S : \A y \in S : x <= y

MaxOf(S) == CHOOSE x \in S : \A y \in S : y <= x

\* lines 36-37
StartDate(ts) == MinOf({ts[k].Entry_Date : k \in 1 .. Len(ts)})

EndDate(ts) == MaxOf({ts[k].Exit_Date : k \in 1 .. Len(ts)})

\* lines 45-50: the days of the series, each a midnight not after endDate
DateRange(ts) == {d \in Day(StartDate(ts)) .. Day(EndDate(ts)) : d * MsPerDay <= EndDate(ts)}

\* lines 53-71: the portfolio values after the trades from index k on, in
\* the order given, have been applied
RECURSIVE ApplyTrades(_, _, _, _, _, _)
ApplyTrades(values, sorted, k, cumulativeProfit, capital, endDate) ==
  IF k > Len(sorted) THEN values
  ELSE LET cumulative == RAdd(cumulativeProfit, sorted[k].Realized_Profit)
           from == Day(sorted[k].Exit_Date)
       IN  ApplyTrades([d \in DOMAIN values |->
                          IF d >= from /\ d * MsPerDay <= endDate
                          THEN RAdd(Num(capital), cumulative) ELSE values[d]],
                       sorted, k + 1, cumulative, capital, endDate)

PortfolioValues(ts, capital) ==
  ApplyTrades([d \in DateRange(ts) |-> Num(capital)], SortByExitDate(ts), 1, Num(0),
              capital, EndDate(ts))

\* lines 80-88: one return per pair of consecutive days whose first value
\* is positive
DailyReturns(values) ==
  LET first == MinOf(DOMAIN values)
      last == MaxOf(DOMAIN values)
      F[d \in first .. last] ==
        IF d = first THEN <<>>
        ELSE IF RLess(Num(0), values[d - 1])
             THEN Append(F[d - 1], RDiv(RSub(values[d], values[d - 1]), values[d - 1]))
             ELSE F[d - 1]
  IN  IF DOMAIN values = {} THEN <<>> ELSE F[last]

\* line 91
ActiveDailyReturns(dailyReturns) ==
  SelectSeq(dailyReturns, LAMBDA ret : RLess(Num(0), RAbs(ret)))

RECURSIVE SumOf(_)
SumOf(qs) == IF qs = <<>> THEN Num(0) ELSE RAdd(SumOf(Tail(qs)), Head(qs))

\* line 114: the value of the last day of the series
FinalValue(values) == values[MaxOf(DOMAIN values)]

ZeroMetrics(capital) ==
  [totalReturn |-> Num(0), standardDeviation |-> Plain(Num(0)),
   annualizedSharpe |-> Plain(Num(0)), tradingDays |-> 0, avgDailyReturn |-> Num(0),
   annualizedReturn |-> Num(0), annualizedVolatility |-> Plain(Num(0)),
   initialCapital |-> capital]

\* a guard that forgets the capital
DegenerateWhenEmpty(ts, capital) == Len(ts) = 0

\* line 22
Degenerate(ts, capital) == Len(ts) = 0 \/ capital <= 0

\* lines 21-141
calculateRiskMetrics(ts, capital) ==
  IF Degenerate(ts, capital) THEN ZeroMetrics(capital)
  ELSE
    LET values == PortfolioValues(ts, capital)
        dailyReturns == DailyReturns(values)
        activeDailyReturns == ActiveDailyReturns(dailyReturns)
        count == Num(Len(dailyReturns))
        avgDailyReturn == RDiv(SumOf(dailyReturns), count)
        variance ==
          RDiv(SumOf([k \in 1 .. Len(dailyReturns) |->
                        RMul(RSub(dailyReturns[k], avgDailyReturn),
                             RSub(dailyReturns[k], avgDailyReturn))]),
               count)
        standardDeviation == Sqrt(variance)
        totalReturn == RDiv(RSub(FinalValue(values), Num(capital)), Num(capital))
        sharpeRatio ==
          IF ~SurdIsZero(standardDeviation) THEN DivBySurd(avgDailyReturn, standardDeviation)
          ELSE Plain(Num(0))
    IN  IF Len(activeDailyReturns) = 0 THEN ZeroMetrics(capital)
        ELSE [totalReturn |-> totalReturn,
              standardDeviation |-> standardDeviation,
              annualizedSharpe |-> SurdMul(sharpeRatio, Sqrt(Num(252))),
              tradingDays |-> Len(activeDailyReturns),
              avgDailyReturn |-> avgDailyReturn,
              annualizedReturn |-> RMul(avgDailyReturn, Num(252)),
              annualizedVolatility |-> SurdMul(standardDeviation, Sqrt(Num(252))),
              initialCapital |-> capital]

\* the array after the call: sorted in place at line 55 unless the call
\* returned at line 23
AfterRiskMetrics(ts, capital) ==
  IF Degenerate(ts, capital) THEN ts ELSE SortByExitDate(ts)

RiskIdle ==
  /\ matchedTradesProp = <<>>
  /\ originalOrder = <<>>
  /\ initialCapital = DefaultCapital
  /\ metrics = Pending

RiskInit ==
  /\ matchedTradesProp \in SeqsUpTo(RiskTrades, MaxMatched)
  /\ originalOrder = matchedTradesProp
  /\ initialCapital = DefaultCapital
  /\ metrics = Pending

\* line 145: a render of RiskAdjustedReturns calls calculateRiskMetrics on
\* the array of the ProcessedData
Render ==
  /\ metrics = Pending
  /\ metrics' = calculateRiskMetrics(matchedTradesProp, initialCapital)
  /\ matchedTradesProp' = AfterRiskMetrics(matchedTradesProp, initialCapital)
  /\ UNCHANGED <<originalOrder, initialCapital, matchVars, csvVars, uploadVars, dateVars>>

\* line 172: the user edits the capital field, which schedules a render
setTotalCapital ==
  /\ metrics # Pending
  /\ \E c \in Capitals : initialCapital' = c
  /\ metrics' = Pending
  /\ UNCHANGED <<matchedTradesProp, originalOrder, matchVars, csvVars, uploadVars, dateVars>>

\* ------------------------------------------------------------------------
\* parseDate on the timestamps of the Kalshi export
\* ------------------------------------------------------------------------

\* A timestamp "<Mon> <D>, <YYYY> at <H>:<MM> <AM|PM> <TZ>", by its parts;
\* the time zone is the sequence of its letters.
KalshiText(mon, day, year, hour, minute, ampm, tz) ==
  [mon |-> mon, day |-> day, year |-> year, hour |-> hour, minute |-> minute,
   ampm |-> ampm, tz |-> tz]

\* String.prototype.toUpperCase, on the strings of the timestamps that are
\* not already in upper case
toUpperCase(str) ==
  CASE str = "am" -> "AM"
    [] str = "pm" -> "PM"
    [] str = "p" -> "P"
    [] str = "s" -> "S"
    [] str = "t" -> "T"
    [] OTHER -> str

\* lines 105-114, the offsets in minutes
timezoneOffsets ==
  (<<"P", "S", "T">> :> -480) @@ (<<"P", "D", "T">> :> -420) @@ (<<"P", "T">> :> -480)
  @@ (<<"M", "S", "T">> :> -420) @@ (<<"M", "D", "T">> :> -360) @@ (<<"M", "T">> :> -420)
  @@ (<<"C", "S", "T">> :> -360) @@ (<<"C", "D", "T">> :> -300) @@ (<<"C", "T">> :> -360)
  @@ (<<"E", "S", "T">> :> -300) @@ (<<"E", "D", "T">> :> -240) @@ (<<"E", "T">> :> -300)
  @@ (<<"A", "K", "S", "T">> :> -540) @@ (<<"A", "K", "D", "T">> :> -480)
  @@ (<<"A", "K", "T">> :> -540)
  @@ (<<"H", "S", "T">> :> -600) @@ (<<"H", "D", "T">> :> -540) @@ (<<"H", "T">> :> -600)
  @@ (<<"A", "S", "T">> :> -240) @@ (<<"A", "D", "T">> :> -180) @@ (<<"A", "T">> :> -240)
  @@ (<<"U", "T", "C">> :> 0) @@ (<<"G", "M", "T">> :> 0) @@ (<<"Z">> :> 0)

\* line 118: '-08:00' when the table has no entry
OffsetOf(table, tz) == IF tz \in DOMAIN table THEN table[tz] ELSE -480

monthNames ==
  <<"Jan", "Feb", "Mar", "Apr", "May", "Jun", "Jul", "Aug", "Sep", "Oct", "Nov", "Dec">>

\* monthNames.indexOf(monthName)
IndexOf(names, name) ==
  IF \E k \in 1 .. Len(names) : names[k] = name
  THEN (CHOOSE k \in 1 .. Len(names) : names[k] = name) - 1
  ELSE -1

\* line 100: the pattern ends in ([A-Z]{2,4}) and is not anchored, so it
\* matches when the time zone has two letters or more, and captures the
\* first four at most
KalshiMatches(text) == Len(text.tz) >= 2

CapturedTimeZone(text) == SubSeq(text.tz, 1, Min(4, Len(text.tz)))

\* lines 133-139
Hour24(hours, ampm) ==
  IF toUpperCase(ampm) = "PM" /\ hours # 12 THEN hours + 12
  ELSE IF toUpperCase(ampm) = "AM" /\ hours = 12 THEN 0
  ELSE hours

\* an instant, as the day since the epoch it falls on in UTC and the
\* milliseconds into that day
InstantOfMinutes(minutes) ==
  [day |-> (minutes - (minutes % 1440)) \div 1440, ms |-> (minutes % 1440) * 60000]

InstantOfMs(ms) == [day |-> (ms - (ms % MsPerDay)) \div MsPerDay, ms |-> ms % MsPerDay]

IsLeapYear(year) == year % 4 = 0 /\ (year % 100 # 0 \/ year % 400 = 0)

DaysInMonth(year, month) ==
  IF month = 2 THEN (IF IsLeapYear(year) THEN 29 ELSE 28)
  ELSE IF month \in {4, 6, 9, 11} THEN 30 ELSE 31

\* the days from 1970-01-01 to the given day of the civil calendar
DaysFromCivil(year, month, day) ==
  LET y == IF month <= 2 THEN year - 1 ELSE year
      era == y \div 400
      yoe == y - era * 400
      mp == (month + 9) % 12
      doy == (153 * mp + 2) \div 5 + day - 1
      doe == yoe * 365 + yoe \div 4 - yoe \div 100 + doy
  IN  era * 146097 + doe - 719468

\* toDate of date-fns-tz on "YYYY-MM-DDTHH:mm:00+-hh:mm": the instant of that
\* wall-clock time at that offset, or an invalid Date when the string names
\* no day or time
toDate(year, month, day, hour, minute, offset) ==
  IF day >= 1 /\ day <= DaysInMonth(year, month) /\ hour <= 24 /\ minute <= 59
  THEN [valid |-> TRUE,
        instant |-> InstantOfMinutes(DaysFromCivil(year, month, day) * 1440
                                       + hour * 60 + minute - offset)]
  ELSE [valid |-> FALSE]

\* lines 156-162 on a text of this form: the free-form parsers of the
\* JavaScript engines stop at the word "at" and give an invalid Date, and
\* parseDate returns the current time
FallbackDate(text, nowMs) == InstantOfMs(nowMs)

\* lines 97-167 on a timestamp of the Kalshi export
parseKalshiDate(text, nowMs) ==
  IF ~KalshiMatches(text) THEN FallbackDate(text, nowMs)
  ELSE
    LET timeZone == CapturedTimeZone(text)
        upperTimeZone == [k \in 1 .. Len(timeZone) |-> toUpperCase(timeZone[k])]
        offset == OffsetOf(timezoneOffsets, upperTimeZone)
        monthIndex == IndexOf(monthNames, text.mon)
        parsed == toDate(text.year, monthIndex + 1, text.day,
                         Hour24(text.hour, text.ampm), text.minute, offset)
    IN  IF monthIndex # -1 /\ parsed.valid THEN parsed.instant
        ELSE FallbackDate(text, nowMs)

\* the days of the timestamps of the model
DateParts == {<<"Jan", 20, 2025>>, <<"Feb", 5, 2025>>, <<"Dec", 31, 2024>>}

\* the time zones of the timestamps of the model: of the table, in lower
\* case, and unknown to the table
TimeZones ==
  {<<"P", "S", "T">>, <<"p", "s", "t">>, <<"H", "S", "T">>, <<"E", "D", "T">>,
   <<"E", "T">>, <<"A", "K", "S", "T">>, <<"U", "T", "C">>, <<"Z">>,
   <<"C", "E", "T">>, <<"W", "E", "S", "T">>}

KalshiTexts ==
  {KalshiText(d[1], d[2], d[3], h, m, ampm, tz) :
     d \in DateParts, h \in {1, 10, 12}, m \in {4, 30}, ampm \in {"AM", "PM", "pm"},
     tz \in TimeZones}

DateIdle ==
  /\ dateStr = KalshiText("Jan", 1, 1970, 12, 0, "AM", <<"U", "T", "C">>)
  /\ parsedDate = Pending

DateInit ==
  /\ dateStr \in KalshiTexts
  /\ parsedDate = Pending

\* one call of parseDate
ParseDate ==
  /\ parsedDate = Pending
  /\ parsedDate' = parseKalshiDate(dateStr, now)
  /\ UNCHANGED <<dateStr, matchVars, csvVars, uploadVars, riskVars>>

vars == <<matchVars, csvVars, uploadVars, riskVars, dateVars>>

Init == MatchInit /\ CsvIdle /\ UploadInit /\ RiskIdle /\ DateIdle

Next == Begin \/ ProcessEntry \/ ProcessExit \/ UnmatchedExit \/ SkipOther \/ Finish

Spec == Init /\ [][Next]_vars

InitCsv == MatchIdle /\ CsvInit /\ UploadInit /\ RiskIdle /\ DateIdle

NextCsv == ProcessCSV

SpecCsv == InitCsv /\ [][NextCsv]_vars

InitUpload == MatchIdle /\ CsvIdle /\ UploadInit /\ RiskIdle /\ DateIdle

NextUpload == HandleFileUpload \/ FileProcessed \/ FileRejected \/ ParseFailed \/ clearData

SpecUpload == InitUpload /\ [][NextUpload]_vars

\* lines 44-50: the await on the parse of file fi ends and the handler runs
\* on, to the await of a later file or out of the loop.  On the steps of
\* NextUpload this is FileProcessed \/ FileRejected \/ ParseFailed.
AwaitEnds == fi # 0 /\ fi' \in (0 .. MaxFiles) \ {fi}

\* every call of Papa.parse ends, in complete or in error, and the handler
\* then runs on
SpecUploadFair == SpecUpload /\ WF_fi(AwaitEnds)

InitRisk == MatchIdle /\ CsvIdle /\ UploadInit /\ RiskInit /\ DateIdle

NextRisk == Render \/ setTotalCapital

SpecRisk == InitRisk /\ [][NextRisk]_vars

InitDate == MatchIdle /\ CsvIdle /\ UploadInit /\ RiskIdle /\ DateInit

NextDate == ParseDate

SpecDate == InitDate /\ [][NextDate]_vars

\* ------------------------------------------------------------------------
\* Properties of matchTradesFifo
\* ------------------------------------------------------------------------

\* the indices in sortedTrades of the entry trades of a ticker: the j-th
\* of them opened the j-th position of openPositions[ticker]
EntriesOf(ticker) ==
  LET F[k \in 0 .. Len(sortedTrades)] ==
        IF k = 0 THEN <<>>
        ELSE IF IsEntry(sortedTrades[k]) /\ sortedTrades[k].Ticker = ticker
             THEN Append(F[k - 1], k) ELSE F[k - 1]
  IN  F[Len(sortedTrades)]

\* the entry trade that opened the position of a pairing
EntryOf(pr) == sortedTrades[EntriesOf(pr.ticker)[pr.pos]]

\* the exit trade of a pairing
ExitOf(pr) == sortedTrades[pr.exit]

\* the completed trades produced from position pos of ticker
MatchesOfPosition(ticker, pos) ==
  {m \in 1 .. Len(pairing) : pairing[m].ticker = ticker /\ pairing[m].pos = pos}

\* the completed trades produced by the exit at index x of sortedTrades
MatchesOfExit(x) == {m \in 1 .. Len(pairing) : pairing[m].exit = x}

RECURSIVE SumContracts(_)
SumContracts(ms) ==
  IF ms = {} THEN 0
  ELSE LET m == CHOOSE x \in ms : TRUE
       IN  completedTrades[m].Contracts + SumContracts(ms \ {m})

RECURSIVE SumField(_, _)
SumField(ms, field) ==
  IF ms = {} THEN Num(0)
  ELSE LET m == CHOOSE x \in ms : TRUE
       IN  RAdd(completedTrades[m][field], SumField(ms \ {m}, field))

\* a position an exit of the given direction may close, in the words of
\* the specification: unclosed, same direction or the Yes/No opposite
MayClose(p, direction) ==
  /\ ~p.is_closed
  /\ (p.direction = direction \/ {p.direction, direction} = {"Yes", "No"})

InLoop == pc = "loop" /\ i <= Len(sortedTrades)

\* a pairing of an entry and an exit that both have a positive contract count
PositiveLots(pr) == EntryOf(pr).Contracts > 0 /\ ExitOf(pr).Contracts > 0

\* C1: an exit consumes the eligible open positions of its ticker oldest
\* first: whenever an iteration takes contracts from a position, every older
\* position of that ticker that the exit could close, same direction or
\* opposite, is left with no contracts.
C1_OldestConsumedFirst ==
  [][InLoop =>
       \A t \in Tickers : \A j \in 1 .. Len(openPositions[t]) :
         openPositions'[t][j].contracts # openPositions[t][j].contracts =>
           \A k \in 1 .. (j - 1) :
             MayClose(openPositions[t][k], sortedTrades[i].Direction) =>
               openPositions'[t][k].contracts = 0]_vars

\* C1 witness: two open positions of opposite directions on one ticker, and
\* the exit just processed closed the older one and left the younger whole.
C1_Witness ==
  /\ pc = "loop"
  /\ \E t \in Tickers :
       /\ Len(openPositions[t]) >= 2
       /\ openPositions[t][1].is_closed
       /\ ~openPositions[t][2].is_closed
       /\ {openPositions[t][1].direction, openPositions[t][2].direction} = {"Yes", "No"}
       /\ EntriesOf(t)[2] < i - 1
       /\ openPositions[t][2].contracts = sortedTrades[EntriesOf(t)[2]].Contracts
       /\ MatchesOfPosition(t, 2) = {}
       /\ \E m \in MatchesOfPosition(t, 1) : pairing[m].exit = i - 1

\* C2: the contracts matched from a position never exceed its original
\* count, and its remaining contracts are never below zero.
C2_PositionNeverOverclosed ==
  \A t \in Tickers : \A j \in 1 .. Len(EntriesOf(t)) :
    /\ SumContracts(MatchesOfPosition(t, j)) <= sortedTrades[EntriesOf(t)[j]].Contracts
    /\ (pc = "loop" /\ j <= Len(openPositions[t])) => openPositions[t][j].contracts >= 0

\* C3: each MatchedTrade closing k contracts of a lot of N contracts, cost C
\* and fee F has Entry_Cost = C*k/N and Entry_Fee = F*k/N, and those of a
\* fully closed position sum to C and F.
C3_EntryProratedOnOriginalLot ==
  /\ \A m \in 1 .. Len(completedTrades) :
       LET e == EntryOf(pairing[m])
           share == Rat(completedTrades[m].Contracts, e.Contracts)
       IN  PositiveLots(pairing[m]) =>
             /\ completedTrades[m].Entry_Cost = RMul(e.Trade_Cost, share)
             /\ completedTrades[m].Entry_Fee = RMul(OrZero(e.Fees), share)
  /\ \A t \in Tickers : \A j \in 1 .. Len(EntriesOf(t)) :
       LET e == sortedTrades[EntriesOf(t)[j]]
           ms == MatchesOfPosition(t, j)
       IN  (e.Contracts > 0 /\ SumContracts(ms) = e.Contracts) =>
             /\ SumField(ms, "Entry_Cost") = e.Trade_Cost
             /\ SumField(ms, "Entry_Fee") = OrZero(e.Fees)

\* C4: each MatchedTrade closing k contracts of an exit of quantity Q and
\* fee X has Exit_Fee = X*k/Q, so that the exit fees of one exit sum to at
\* most X, and to X when the exit is consumed in full.
C4_ExitFeeProratedOnExitQuantity ==
  /\ \A m \in 1 .. Len(completedTrades) :
       LET x == ExitOf(pairing[m])
       IN  (\A o \in MatchesOfExit(pairing[m].exit) : PositiveLots(pairing[o])) =>
             completedTrades[m].Exit_Fee =
               RMul(OrZero(x.Fees), Rat(completedTrades[m].Contracts, x.Contracts))
  /\ \A x \in 1 .. Len(sortedTrades) :
       LET ms == MatchesOfExit(x)
       IN  (ms # {} /\ \A m \in ms : PositiveLots(pairing[m])) =>
             /\ RLeq(SumField(ms, "Exit_Fee"), OrZero(sortedTrades[x].Fees))
             /\ SumContracts(ms) = sortedTrades[x].Contracts =>
                  SumField(ms, "Exit_Fee") = OrZero(sortedTrades[x].Fees)

\* C5: a MatchedTrade of a non-settlement exit realizes
\* contractsClosed * (100 - entryPrice - exitPrice) / 100, with the price of
\* the entry row and the price of the exit row, whatever the two directions.
C5_TradeCloseProfit ==
  \A m \in 1 .. Len(completedTrades) :
    LET e == EntryOf(pairing[m])
        x == ExitOf(pairing[m])
    IN  (x.Type = "trade" /\ ~IsZero(x.Realized_Profit)) =>
          completedTrades[m].Realized_Profit =
            Rat(completedTrades[m].Contracts
                  * (100 - e.Average_Price - x.Average_Price), 100)

\* C5 witness: a lot entered at 30 closed by a trade at 80 of the opposite
\* direction, and one closed by a trade of the same direction.
C5_Witness ==
  /\ \E m \in 1 .. Len(completedTrades) :
       /\ ExitOf(pairing[m]).Type = "trade"
       /\ EntryOf(pairing[m]).Direction = "No"
       /\ ExitOf(pairing[m]).Direction = "Yes"
       /\ EntryOf(pairing[m]).Average_Price = 30
       /\ ExitOf(pairing[m]).Average_Price = 80
       /\ completedTrades[m].Contracts = 2
       /\ completedTrades[m].Realized_Profit = Rat(-20, 100)
  /\ \E m \in 1 .. Len(completedTrades) :
       /\ ExitOf(pairing[m]).Type = "trade"
       /\ EntryOf(pairing[m]).Direction = ExitOf(pairing[m]).Direction

\* C6: a MatchedTrade whose Entry_Cost is 0 has no ROI, and no MatchedTrade
\* has a ROI that is NaN or infinite.
C6_RoiGuarded ==
  \A m \in 1 .. Len(completedTrades) :
    PositiveLots(pairing[m]) =>
      /\ IsZero(completedTrades[m].Entry_Cost) => completedTrades[m].ROI = Undefined
      /\ completedTrades[m].ROI = Undefined \/ IsFinite(completedTrades[m].ROI)

\* C7: an exit with no eligible unclosed position on its ticker emits no
\* MatchedTrade, changes no position of any ticker, and the loop goes on to
\* the next trade.
C7_UnmatchedExitSkipped ==
  [][(/\ InLoop
      /\ IsExit(sortedTrades[i])
      /\ \A j \in 1 .. Len(openPositions[sortedTrades[i].Ticker]) :
           ~MayClose(openPositions[sortedTrades[i].Ticker][j],
                     sortedTrades[i].Direction))
     => /\ completedTrades' = completedTrades
        /\ openPositions' = openPositions
        /\ pc' = "loop"
        /\ i' = i + 1]_vars

\* C7 witness: the matcher has returned, an exit with a positive quantity
\* was skipped, and a later exit on the same ticker was matched.
C7_Witness ==
  /\ pc = "done"
  /\ \E x \in 1 .. Len(sortedTrades) :
       /\ IsExit(sortedTrades[x])
       /\ sortedTrades[x].Contracts > 0
       /\ MatchesOfExit(x) = {}
       /\ \E m \in 1 .. Len(pairing) :
            pairing[m].ticker = sortedTrades[x].Ticker /\ pairing[m].exit > x

\* ------------------------------------------------------------------------
\* Properties of processCSVData
\* ------------------------------------------------------------------------

\* the headers of the file, trimmed and in lower case
HeaderSet == {toLowerCase(trim(results.fields[k])) : k \in 1 .. Len(results.fields)}

AllLegacyColumns == {LEGACY_COLUMNS[k] : k \in 1 .. Len(LEGACY_COLUMNS)} \subseteq HeaderSet

AllNewColumns ==
  {NEW_FORMAT_COLUMNS[k] : k \in 1 .. Len(NEW_FORMAT_COLUMNS)} \subseteq HeaderSet

EmptyResult == Failure("No valid trades found in the CSV file")

SchemaMismatch ==
  Failure("Invalid CSV format: Missing required columns for both legacy and new Kalshi exports.")

Returned == outcome # Pending

ReturnedData == outcome # Pending /\ outcome.status = "ok"

\* C8: the normalized headers decide the path: all legacy columns (with or
\* without all new ones) give the legacy path, whose trades are FIFO-matched;
\* all new columns without all legacy ones give the new-format path; neither
\* full set fails with the schema-mismatch error.
C8_SchemaDetection ==
  (Returned /\ results.data # <<>>) =>
    /\ AllLegacyColumns =>
         \/ outcome = EmptyResult
         \/ /\ outcome.status = "ok"
            /\ outcome.path = "legacy"
            /\ outcome.matchedTrades = matchTradesFifo(outcome.trades)
    /\ (AllNewColumns /\ ~AllLegacyColumns) =>
         \/ outcome = EmptyResult
         \/ /\ outcome.status = "ok"
            /\ outcome.path = "new"
            /\ outcome.matchedTrades = transformNewFormatRows(results.data, now).matchedTrades
    /\ (~AllLegacyColumns /\ ~AllNewColumns) => outcome = SchemaMismatch

\* C8 witness: a file with the columns of both exports, headers capitalised
\* as Kalshi writes them, went down the legacy path and was matched.
C8_Witness ==
  /\ ReturnedData
  /\ AllLegacyColumns
  /\ AllNewColumns
  /\ \E k \in 1 .. Len(results.fields) : results.fields[k] = "Average_Price"
  /\ outcome.path = "legacy"
  /\ outcome.trades # <<>>

\* the cell of a row under the header that normalizes to the given column
CellUnder(row, column) ==
  LET hs == {h \in DOMAIN row : toLowerCase(trim(h)) = column}
  IN  IF hs = {} THEN Undefined ELSE row[CHOOSE h \in hs : TRUE]

\* a row with a ticker, a type other than credit and a positive contract count
UsableLegacyRow(row) ==
  /\ Truthy(CellUnder(row, "ticker"))
  /\ toLowerCase(TextOf(CellUnder(row, "type"))) # "credit"
  /\ RLess(Num(0), parseFloat(CellUnder(row, "contracts")))

\* C9: a file whose headers are the six legacy columns up to case and
\* surrounding whitespace, with at least one usable row, is processed into a
\* non-empty trade list and not rejected.
C9_LegacyHeadersAnyCase ==
  (/\ Returned
   /\ AllLegacyColumns
   /\ \E r \in 1 .. Len(results.data) : UsableLegacyRow(results.data[r]))
  => (outcome.status = "ok" /\ outcome.trades # <<>>)

\* the rows the returned trades come from, in order
KeptRows ==
  IF outcome.path = "legacy" THEN LegacyKept(results.data) ELSE NewKept(results.data)

\* C10: every Trade returned has Contracts > 0 and a non-empty Ticker, and
\* none comes from a credit row.
C10_TradesWellFormed ==
  ReturnedData =>
    \A k \in 1 .. Len(outcome.trades) :
      /\ outcome.trades[k].Contracts > 0
      /\ outcome.trades[k].Ticker \notin {"", NoText}
      /\ toLowerCase(TextOf(CellUnder(results.data[KeptRows[k]], "type"))) # "credit"

NoData == Failure("Invalid CSV format: No data found")

\* the rows that survive the filter of the path the headers select
KeptOnPath ==
  IF AllLegacyColumns THEN LegacyKept(results.data) ELSE NewKept(results.data)

\* C11: processCSVData never returns a ProcessedData whose trades list is
\* empty: a file without rows fails with the no-data error, and a file of
\* either schema whose rows are all filtered out fails with the empty-result
\* error.
C11_NeverEmptyTrades ==
  Returned =>
    /\ outcome.status = "ok" => Len(outcome.trades) > 0
    /\ results.data = <<>> => outcome = NoData
    /\ (/\ results.data # <<>>
        /\ AllLegacyColumns \/ AllNewColumns
        /\ KeptOnPath = <<>>) => outcome = EmptyResult

\* C11 witness: a new-format file of two rows, both filtered out, was
\* rejected with the empty-result error.
C11_Witness ==
  /\ outcome = EmptyResult
  /\ Len(results.data) = 2
  /\ AllNewColumns
  /\ ~AllLegacyColumns

\* ------------------------------------------------------------------------
\* Properties of combineProcessedData and of CsvUploader
\* ------------------------------------------------------------------------

Range(seq) == {seq[k] : k \in 1 .. Len(seq)}

\* a sequence as a multiset
BagOf(seq) == [x \in Range(seq) |-> Cardinality({k \in 1 .. Len(seq) : seq[k] = x})]

\* the upload was cut short by a file that could not be parsed
Aborted == \E k \in 1 .. Len(error) : error[k].step = "parsing"

\* no upload is in flight and the last one ran to the end of its loop
Concluded == fi = 0 /\ Len(files) > 0 /\ ~Aborted

\* the last upload stored the combination of the files it processed
Stored == Concluded /\ Len(processedDataArray) > 0

\* the tickers of the trades of a batch
TickersOf(data) == {data.trades[k].Ticker : k \in 1 .. Len(data.trades)}

\* the first trade of the list, on the ticker, that satisfies the test; 0 if none
FirstOn(ts, ticker, Test(_)) ==
  LET S == {k \in 1 .. Len(ts) : ts[k].Ticker = ticker /\ Test(ts[k])}
  IN  IF S = {} THEN 0 ELSE MinOf(S)

\* C12: the matched trades of a combination are those of one fresh FIFO run
\* over the date-sorted trades of all its batches: when the first exit of a
\* ticker is preceded by an entry it may close, whichever batches the two
\* come from, a MatchedTrade pairs that exit with the oldest such entry.
C12_CombineMatchesAcrossBatches ==
  (Stored /\ Len(processedDataArray) >= 2) =>
    LET all == SortByDate(Concat(processedDataArray, "trades"))
    IN  /\ processedData.trades = all
        /\ processedData.matchedTrades = matchTradesFifo(all)
        /\ \A t \in Tickers :
             LET e == FirstOn(all, t, IsEntry)
                 x == FirstOn(all, t, IsExit)
             IN  (/\ e # 0
                  /\ x # 0
                  /\ e < x
                  /\ all[e].Contracts > 0
                  /\ all[x].Contracts > 0
                  /\ {all[e].Direction, all[x].Direction} \subseteq {"Yes", "No"})
                 => \E m \in 1 .. Len(processedData.matchedTrades) :
                      /\ processedData.matchedTrades[m].Ticker = t
                      /\ processedData.matchedTrades[m].Entry_Date = all[e].Date
                      /\ processedData.matchedTrades[m].Exit_Date = all[x].Date
                      /\ processedData.matchedTrades[m].Contracts =
                           Min(all[e].Contracts, all[x].Contracts)

\* C12 witness: two legacy files, neither with a match of its own, the
\* entry in the first and the settlement in the second, were combined into
\* a result that pairs the two.
C12_Witness ==
  /\ Stored
  /\ Len(processedDataArray) = 2
  /\ processedDataArray[1].matchedTrades = <<>>
  /\ processedDataArray[2].matchedTrades = <<>>
  /\ IsEntry(processedDataArray[1].trades[1])
  /\ IsExit(processedDataArray[2].trades[1])
  /\ Len(processedData.matchedTrades) = 1
  /\ processedData.matchedTrades[1].Entry_Date = processedDataArray[1].trades[1].Date
  /\ processedData.matchedTrades[1].Exit_Date = processedDataArray[2].trades[1].Date

\* C13: combining one processed batch gives back its matched trades, and
\* combining batches with no ticker in common gives, as a multiset, the
\* matched trades the batches had on their own.
C13_DisjointBatchesKeepTheirMatches ==
  /\ \A k \in 1 .. Len(processedDataArray) :
       combineProcessedData(<<processedDataArray[k]>>).matchedTrades
         = processedDataArray[k].matchedTrades
  /\ (/\ Stored
      /\ Len(processedDataArray) >= 2
      /\ \A j, k \in 1 .. Len(processedDataArray) :
           j # k => TickersOf(processedDataArray[j]) \cap TickersOf(processedDataArray[k]) = {})
     => BagOf(processedData.matchedTrades)
          = BagOf(Concat(processedDataArray, "matchedTrades"))

\* what the last upload handed to matchTradesFifo through combineProcessedData
MatcherInput ==
  IF Len(processedDataArray) >= 2 THEN Concat(processedDataArray, "trades") ELSE <<>>

\* C14: the trades of a new-format batch never reach the FIFO matcher: the
\* stored result holds the MatchedTrades the normalizer made of its rows,
\* whether the batch was uploaded alone or combined with others.
C14_NewSchemaBypassesMatcher ==
  Stored =>
    \A k \in 1 .. Len(processedDataArray) :
      processedDataArray[k].path = "new" =>
        /\ Range(processedDataArray[k].matchedTrades) \subseteq Range(processedData.matchedTrades)
        /\ Range(processedDataArray[k].trades) \cap Range(MatcherInput) = {}

\* the file at index k of the last upload was not skipped
NotSkipped(k) == ~Includes(seen, files[k].name)

\* C15: when an upload has ended, every file of it that was not skipped was
\* dealt with: a failure to parse or to process it is in the error message,
\* and a file that processes is part of the combination stored and handed
\* to onFileUpload.
C15_FailureDoesNotAbortBatch ==
  (fi = 0 /\ Len(files) > 0) =>
    /\ \A k \in 1 .. Len(files) :
         NotSkipped(k) =>
           IF ~files[k].readable
           THEN \E e \in 1 .. Len(error) : error[e].step = "parsing"
           ELSE LET processed == processCSVData(files[k].results, now)
                IN  IF processed.status = "error"
                    THEN \E e \in 1 .. Len(error) :
                           error[e] = [step |-> "processing", file |-> files[k].name,
                                       message |-> processed.message]
                    ELSE k \in Range(sources)
    /\ Len(processedDataArray) > 0 =>
         /\ processedData = Combined(processedDataArray)
         /\ handed = Combined(processedDataArray)

\* C16: no name is listed twice in uploadedFiles, and a file is processed
\* only if its name was not processed before, in an earlier upload or
\* earlier in the same upload.
C16_DuplicateNamesSkipped ==
  /\ \A j, k \in 1 .. Len(uploadedFiles) : j # k => uploadedFiles[j] # uploadedFiles[k]
  /\ \A k \in Range(sources) :
       /\ ~Includes(seen, files[k].name)
       /\ \A j \in Range(sources) : j < k => files[j].name # files[k].name

\* the ProcessedData of the files of the upload that were processed, made
\* from the files anew
Reprocessed(fs, srcs) ==
  [k \in 1 .. Len(srcs) |-> processCSVData(fs[srcs[k]].results, now)]

\* the trades, matched trades and rows of a ProcessedData
Content(data) ==
  [originalData |-> data.originalData, trades |-> data.trades,
   matchedTrades |-> data.matchedTrades]

\* the combination of the ProcessedData of one upload, from nothing else
FreshCombination(dataArray) ==
  IF Len(dataArray) = 1 THEN Content(dataArray[1])
  ELSE [originalData |-> Concat(dataArray, "originalData"),
        trades |-> SortByDate(Concat(dataArray, "trades")),
        matchedTrades |-> matchTradesFifo(Concat(dataArray, "trades"))]

Rendered == metrics # Pending

\* C18: a render leaves the matchedTrades array it is given as it was,
\* elements and order.
C18_ConsumersLeaveArrayUnchanged == matchedTradesProp = originalOrder

AllZeroMetrics(m) ==
  /\ IsZero(m.totalReturn)
  /\ SurdIsZero(m.standardDeviation)
  /\ SurdIsZero(m.annualizedSharpe)
  /\ m.tradingDays = 0
  /\ IsZero(m.avgDailyReturn)
  /\ IsZero(m.annualizedReturn)
  /\ SurdIsZero(m.annualizedVolatility)

\* C19: with no matched trade, or a capital of 0 or less, every metric is
\* 0; and the annualized Sharpe ratio is 0 whenever the standard deviation
\* of the daily returns is 0.
C19_DegenerateMetricsAreZero ==
  Rendered =>
    /\ (Len(originalOrder) = 0 \/ initialCapital <= 0) => AllZeroMetrics(metrics)
    /\ SurdIsZero(metrics.standardDeviation) => SurdIsZero(metrics.annualizedSharpe)

\* C19 witness: matched trades were rendered with a capital below 0.
C19_Witness ==
  /\ Rendered
  /\ Len(originalOrder) = 2
  /\ initialCapital < 0
  /\ AllZeroMetrics(metrics)

RECURSIVE TotalProfit(_)
TotalProfit(ts) ==
  IF ts = <<>> THEN Num(0) ELSE RAdd(TotalProfit(Tail(ts)), Head(ts).Realized_Profit)

\* C20: with matched trades and a positive capital, the last day of the
\* series is worth the capital plus the realized profit of all the trades,
\* and totalReturn is that profit over the capital.
C20_TotalReturnIsProfitOverCapital ==
  (Rendered /\ Len(originalOrder) > 0 /\ initialCapital > 0) =>
    /\ FinalValue(PortfolioValues(originalOrder, initialCapital))
         = RAdd(Num(initialCapital), TotalProfit(originalOrder))
    /\ metrics.totalReturn = RDiv(TotalProfit(originalOrder), Num(initialCapital))

\* ------------------------------------------------------------------------
\* Properties of calculateBasicStats
\* ------------------------------------------------------------------------

\* how many of the matched trades at the given indices made a net profit
WinsAmong(ms, S) == Cardinality({k \in S : RLess(Num(0), ms[k].Net_Profit)})

InUnitInterval(q) == RLeq(Num(0), q) /\ RLeq(q, Num(1))

\* C21: winRate is the number of matched trades with Net_Profit > 0 over the
\* number of matched trades, settledWinRate the same among the matched
\* trades whose Exit_Type is settlement; each is 0 when there is no such
\* trade, and each lies between 0 and 1.
C21_WinRates ==
  ReturnedData =>
    LET ms == outcome.matchedTrades
        all == 1 .. Len(ms)
        settled == {k \in all : ms[k].Exit_Type = "settlement"}
        stats == outcome.basicStats
    IN  /\ stats.winRate =
             IF all = {} THEN Num(0) ELSE Rat(WinsAmong(ms, all), Cardinality(all))
        /\ stats.settledWinRate =
             IF settled = {} THEN Num(0)
             ELSE Rat(WinsAmong(ms, settled), Cardinality(settled))
        /\ InUnitInterval(stats.winRate)
        /\ InUnitInterval(stats.settledWinRate)

\* C21 witness: of two matched trades one was a loss, and the one that
\* settled was a win.
C21_Witness ==
  /\ ReturnedData
  /\ Len(outcome.matchedTrades) = 2
  /\ outcome.basicStats.winRate = Rat(1, 2)
  /\ outcome.basicStats.settledWinRate = Num(1)

\* ------------------------------------------------------------------------
\* Properties of transformNewFormatRows
\* ------------------------------------------------------------------------

ReturnedNew == ReturnedData /\ outcome.path = "new"

\* C22: on the new-format path every row the filter keeps yields one Trade
\* and one MatchedTrade, in the order of the rows: the two lists are as long
\* as the list of kept rows, and the i-th MatchedTrade has the ticker, the
\* contract count, the direction and the type of the i-th Trade, which are
\* those of the i-th kept row.
C22_OneTradeAndOneMatchPerRow ==
  ReturnedNew =>
    LET kept == NewKept(results.data)
    IN  /\ Len(outcome.trades) = Len(kept)
        /\ Len(outcome.matchedTrades) = Len(kept)
        /\ \A k \in 1 .. Len(kept) :
             LET row == results.data[kept[k]]
                 t == outcome.trades[k]
                 m == outcome.matchedTrades[k]
             IN  /\ m.Ticker = t.Ticker
                 /\ m.Contracts = t.Contracts
                 /\ m.Entry_Direction = t.Direction
                 /\ m.Exit_Type = t.Type
                 /\ t.Type \in {"settlement", "trade"}
                 /\ t.Ticker = TextOf(CellUnder(row, "market_ticker"))
                 /\ Num(t.Contracts) = parseNumber(CellUnder(row, "quantity"))

\* C22 witness: a file of two kept rows, the first a sale on T1 and the
\* second a settlement on T2, gave two trades and two matched trades.
C22_Witness ==
  /\ ReturnedNew
  /\ Len(outcome.trades) = 2
  /\ outcome.matchedTrades[1].Ticker = "T1"
  /\ outcome.matchedTrades[1].Exit_Type = "trade"
  /\ outcome.matchedTrades[2].Ticker = "T2"
  /\ outcome.matchedTrades[2].Exit_Type = "settlement"

\* ------------------------------------------------------------------------
\* Further properties of matchTradesFifo
\* ------------------------------------------------------------------------

\* C23: every MatchedTrade the matcher emits closes more than zero
\* contracts, and a position is marked closed exactly when a close leaves
\* it with no contracts.
C23_MatchesCloseContracts ==
  /\ \A m \in 1 .. Len(completedTrades) : completedTrades[m].Contracts > 0
  /\ pc = "loop" =>
       \A t \in Tickers : \A j \in 1 .. Len(openPositions[t]) :
         /\ openPositions[t][j].is_closed => openPositions[t][j].contracts = 0
         /\ (MatchesOfPosition(t, j) # {} /\ openPositions[t][j].contracts = 0)
              => openPositions[t][j].is_closed

\* the exits of sortedTrades that are settlements
Settlements == {x \in 1 .. Len(sortedTrades) : sortedTrades[x].Type = "settlement"}

\* C24: a MatchedTrade that closes k contracts of a settlement row realizes
\* k times the row's realized profit per contract, so the MatchedTrades of
\* one settlement realize its whole profit when its full quantity is
\* matched, and the proportional share when only part of it is.
C24_SettlementProfitProrated ==
  /\ \A m \in 1 .. Len(completedTrades) :
       LET x == ExitOf(pairing[m])
       IN  x.Type = "settlement" =>
             completedTrades[m].Realized_Profit =
               RMul(RDiv(x.Realized_Profit, Num(x.Contracts)),
                    Num(completedTrades[m].Contracts))
  /\ \A x \in Settlements :
       LET ms == MatchesOfExit(x)
           row == sortedTrades[x]
       IN  ms # {} =>
             /\ SumField(ms, "Realized_Profit") =
                  RMul(row.Realized_Profit, Rat(SumContracts(ms), row.Contracts))
             /\ SumContracts(ms) = row.Contracts =>
                  SumField(ms, "Realized_Profit") = row.Realized_Profit

\* C24 witness: a settlement of two contracts with a profit of 1 closed two
\* positions of one contract each, half of the profit on either.
C24_Witness ==
  /\ pc = "done"
  /\ \E x \in Settlements :
       /\ sortedTrades[x].Contracts = 2
       /\ sortedTrades[x].Realized_Profit = Num(1)
       /\ Cardinality(MatchesOfExit(x)) = 2
       /\ \A m \in MatchesOfExit(x) :
            /\ completedTrades[m].Contracts = 1
            /\ completedTrades[m].Realized_Profit = Rat(1, 2)

\* ------------------------------------------------------------------------
\* Properties of parseDate
\* ------------------------------------------------------------------------

ParsedDate == parsedDate # Pending

\* the time zone of the timestamp, in upper case
StatedTimeZone == [k \in 1 .. Len(dateStr.tz) |-> toUpperCase(dateStr.tz[k])]

\* the offset the table gives the stated time zone, Pacific Standard Time's
\* when it has none
StatedOffset ==
  IF StatedTimeZone \in DOMAIN timezoneOffsets THEN timezoneOffsets[StatedTimeZone]
  ELSE -480

\* the stated hour on the 24-hour clock
StatedHour ==
  IF dateStr.hour = 12 THEN (IF dateStr.ampm \in {"PM", "pm"} THEN 12 ELSE 0)
  ELSE IF dateStr.ampm \in {"PM", "pm"} THEN dateStr.hour + 12
  ELSE dateStr.hour

\* the stated wall-clock time as minutes since the epoch, read as UTC
StatedWallClock ==
  DaysFromCivil(dateStr.year, IndexOf(monthNames, dateStr.mon) + 1, dateStr.day) * 1440
    + StatedHour * 60 + dateStr.minute

\* C25: a timestamp "<Mon> <D>, <YYYY> at <H>:<MM> <AM|PM> <TZ>" resolves to
\* the instant whose UTC time is the stated wall-clock time less the offset
\* the table gives <TZ>, or less -08:00 when the table does not have <TZ>;
\* "Jan 20, 2025 at 10:04 AM PST" resolves to 2025-01-20T18:04:00Z.
C25_KalshiTimestampResolved ==
  ParsedDate =>
    /\ parsedDate = InstantOfMinutes(StatedWallClock - StatedOffset)
    /\ dateStr = KalshiText("Jan", 20, 2025, 10, 4, "AM", <<"P", "S", "T">>)
         => parsedDate = [day |-> 20108, ms |-> (18 * 60 + 4) * 60000]

\* ------------------------------------------------------------------------
\* Order and isolation in matchTradesFifo
\* ------------------------------------------------------------------------

\* C26: no MatchedTrade exits before it enters: the exit of every pairing
\* comes after its entry in the date-sorted list, so Exit_Date is not before
\* Entry_Date and Holding_Period_Days is not below 0.
C26_ExitNotBeforeEntry ==
  \A m \in 1 .. Len(completedTrades) :
    /\ EntriesOf(pairing[m].ticker)[pairing[m].pos] < pairing[m].exit
    /\ EntryOf(pairing[m]).Date <= ExitOf(pairing[m]).Date
    /\ completedTrades[m].Entry_Date = EntryOf(pairing[m]).Date
    /\ completedTrades[m].Exit_Date = ExitOf(pairing[m]).Date
    /\ completedTrades[m].Exit_Date >= completedTrades[m].Entry_Date
    /\ RLeq(Num(0), completedTrades[m].Holding_Period_Days)

\* C26 witness: the list was given with a later entry ahead of an earlier
\* exit on the same ticker; the exit was matched with an entry of its own
\* day, and the later entry is still whole.
C26_Witness ==
  /\ pc = "done"
  /\ Len(trades) = 3
  /\ IsEntry(trades[1])
  /\ IsExit(trades[3])
  /\ trades[1].Ticker = trades[3].Ticker
  /\ trades[1].Date > trades[3].Date
  /\ Len(completedTrades) = 1
  /\ completedTrades[1].Entry_Date = trades[2].Date
  /\ completedTrades[1].Exit_Date = trades[3].Date
  /\ \E j \in 1 .. Len(openPositions[trades[1].Ticker]) :
       /\ openPositions[trades[1].Ticker][j].entry_date = trades[1].Date
       /\ openPositions[trades[1].Ticker][j].contracts = trades[1].Contracts

\* the positions of the tickers other than that of the trade the loop is at
\* are the same before and after the iteration
OtherTickersUntouched ==
  \A t \in Tickers \ {sortedTrades[i].Ticker} : openPositions'[t] = openPositions[t]

\* every MatchedTrade carries the ticker of its entry and of its exit
SameTickerPairs ==
  \A m \in 1 .. Len(completedTrades) :
    /\ completedTrades[m].Ticker = ExitOf(pairing[m]).Ticker
    /\ completedTrades[m].Ticker = EntryOf(pairing[m]).Ticker
    /\ completedTrades[m].Entry_Direction = EntryOf(pairing[m]).Direction
    /\ completedTrades[m].Entry_Date = EntryOf(pairing[m]).Date

\* C27: matching is isolated per ticker: an iteration on a trade of ticker T
\* leaves the positions of every other ticker as they were, none created,
\* decremented or closed, and every MatchedTrade pairs an entry and an exit
\* of one ticker.
C27_TickersIsolated ==
  /\ [][InLoop => OtherTickersUntouched]_vars
  /\ []SameTickerPairs

\* C27 witness: with a position open on either ticker, an exit on T2 closed
\* the position of T2 and left that of T1 whole.
C27_Witness ==
  /\ pc = "done"
  /\ Len(completedTrades) = 1
  /\ completedTrades[1].Ticker = "T2"
  /\ Len(openPositions["T1"]) = 1
  /\ openPositions["T1"][1].contracts = sortedTrades[EntriesOf("T1")[1]].Contracts
  /\ openPositions["T1"][1].contracts > 0
  /\ EntriesOf("T1")[1] < pairing[1].exit

\* the contracts left in the positions an exit of the given direction may close
Available(positions, direction) ==
  LET F[k \in 0 .. Len(positions)] ==
        IF k = 0 THEN 0
        ELSE IF MayClose(positions[k], direction)
             THEN F[k - 1] + positions[k].contracts ELSE F[k - 1]
  IN  F[Len(positions)]

\* the contracts of the MatchedTrades the iteration emits
EmittedContracts ==
  LET F[m \in Len(completedTrades) .. Len(completedTrades')] ==
        IF m = Len(completedTrades) THEN 0
        ELSE F[m - 1] + completedTrades'[m].Contracts
  IN  F[Len(completedTrades')]

\* C28: the MatchedTrades of an exit close, in all, the smaller of the exit's
\* quantity and the contracts left in the eligible positions of its ticker
\* at that moment; what the exit has beyond that is dropped: every
\* MatchedTrade is made for the exit the loop is at, none for an earlier one.
C28_ExitClosesWhatIsAvailable ==
  [][InLoop =>
       /\ IsExit(sortedTrades[i]) =>
            EmittedContracts =
              Min(sortedTrades[i].Contracts,
                  Available(openPositions[sortedTrades[i].Ticker],
                            sortedTrades[i].Direction))
       /\ \A m \in (Len(pairing) + 1) .. Len(pairing') : pairing'[m].exit = i]_vars

\* ------------------------------------------------------------------------
\* Further properties of CsvUploader
\* ------------------------------------------------------------------------

\* no upload is in flight
AtRest == fi = 0 /\ ~loading

\* the file the loop is at fails, in the parse or in processCSVData
CurrentFileFails ==
  /\ fi # 0
  /\ \/ ~files[fi].readable
     \/ processCSVData(files[fi].results, now).status = "error"

\* C29: whenever no upload is in flight, every name listed in uploadedFiles
\* is that of a file whose trades are in the stored result: none is listed
\* while its processed data was discarded; and a file that fails is not
\* added to the list.
C29_ListedFilesAreStored ==
  /\ [](AtRest =>
          \A k \in 1 .. Len(uploadedFiles) :
            /\ processedData # Null
            /\ Range(recorded[k]) \subseteq Range(processedData.trades))
  /\ [][CurrentFileFails => uploadedFiles' = uploadedFiles]_vars

\* C30: an upload that sets loading clears it in the end, whether its files
\* are processed, rejected by processCSVData, fail to parse or are all
\* skipped; and an upload that has processed no file leaves the stored
\* result as it was.
C30_LoadingClearedAndResultKept ==
  /\ loading ~> ~loading
  /\ [][/\ (files' # <<>> /\ Len(processedDataArray') = 0)
             => processedData' = processedData
        /\ fi' # 0 => processedData' = processedData]_vars

\* C30 witness: an upload whose first file was rejected by processCSVData
\* and whose second file could not be parsed has ended with loading cleared
\* and nothing stored.
C30_Witness ==
  /\ AtRest
  /\ Len(files) = 2
  /\ Len(error) = 2
  /\ Aborted
  /\ Len(processedDataArray) = 0
  /\ processedData = Null

====
